---------------------------- MODULE Spec2Model ----------------------------
(***************************************************************************)
(* Halloween AR experience: the AR session phase machine                   *)
(* (ARSessionManager + CameraHandler + ARScene), the SessionManager        *)
(* interaction tracker, the CameraUtils singleton and the QRService cache. *)
(*                                                                         *)
(* Each component has its own specification over the shared variables:     *)
(*   Spec    the React components of the AR session (phase machine)        *)
(*   SMSpec  lib/sessionManager.js (SessionManager)                        *)
(*   CUSpec  lib/cameraUtils.js (CameraUtils) with lib/errorHandler.js     *)
(*   QRSpec  lib/services/qrService.js (QRService cache)                   *)
(* A specification leaves the variables of the other components alone.     *)
(***************************************************************************)
EXTENDS Integers, Sequences, FiniteSets, TLC

VARIABLES
  \* ---- ARSessionManager (src/src/components/ARSessionManager.js)
  sessionState,         \* useState record: phase, error, flags, statistics
  cameraStream,         \* useState: the MediaStream handed to ARScene (0 = null)
  capabilitiesLoading,  \* useDeviceCapabilities().isLoading of ARSessionManager
  isSupported,          \* useDeviceCapabilities().isSupported of ARSessionManager
  rendered,             \* the state snapshot of the render committed last
  dirty,                \* the passive effects of that render are still to run
  committed,            \* dependency values seen by the effects when they last ran
  endSessionChanged,    \* endSession of that render differs from the one the effects saw
  pending,              \* state updates queued since that render
  \* ---- CameraHandler / ARScene instances
  chInst,               \* mounted CameraHandler instance (0 = not mounted)
  nextInst,             \* number of the next CameraHandler instance to mount
  chCaps,               \* CameraHandler's own useDeviceCapabilities state
  streamRef,            \* CameraHandler's streamRef.current (0 = null)
  scene,                \* mounted ARScene: [inst, st, markerVisible, stream]
  inflight,             \* asynchronous operations not yet settled
  nextStream,           \* id of the next MediaStream getUserMedia hands out
  liveStreams,          \* streams that still have a live track
  lastEvent,            \* name of the step taken last
  failedInit,           \* stream of a failed MindAR initialization, until the user acts (0 = none)
  \* ---- the other components
  sm,                   \* SessionManager object and its environment
  cu,                   \* CameraUtils object and its environment
  qr,                   \* QRService object and its environment
  api,                  \* /api/qr-code handler: a request and its response
  mo,                   \* MessageOverlay component and its timers
  eh,                   \* ErrorHandler object and its listeners
  ss,                   \* /api/session module: its two Maps, the clock, a response
  pm,                   \* PerformanceMonitor object
  am                    \* /api/ar/message: a request, its response and the ARScene that fetched it

arVars == <<sessionState, cameraStream, capabilitiesLoading, isSupported, rendered,
            dirty, committed, endSessionChanged, pending, chInst, nextInst, chCaps, streamRef,
            scene, inflight, nextStream, liveStreams, lastEvent, failedInit>>
others == <<api, mo, eh, ss, pm, am>>
vars == <<arVars, sm, cu, qr, others>>

-----------------------------------------------------------------------------
(* Bounds of the AR session model *)
MaxInst == 3          \* CameraHandler mounts explored
MaxDetections == 2    \* marker detections counted
MaxErrors == 2        \* session errors counted

(* ARSessionManager props *)
autoStart == TRUE

Phases == {"idle", "checking", "requesting_camera", "initializing", "active", "error"}

ErrUnsupported == "AR is not supported on this device/browser"
PermissionGuidance == "Camera permission denied. Please allow camera access and try again."
ErrMindAR == "AR libraries failed to load"
ErrStartAR == "MindAR start failed"

\* DOMException names getUserMedia rejects with, and the message each carries
CameraErrorNames == {"NotAllowedError", "NotFoundError", "NotReadableError"}
DomMessage(name) ==
  CASE name = "NotAllowedError" -> "Permission denied"
    [] name = "NotFoundError" -> "Requested device not found"
    [] OTHER -> "Could not start video source"

NoScene == [inst |-> 0, st |-> "none", markerVisible |-> FALSE, stream |-> 0]

-----------------------------------------------------------------------------
(* State updaters of ARSessionManager: each is the function handed to      *)
(* setSessionState by the handler of the same name.                        *)

handleSessionError(s, message) ==
  [s EXCEPT !.phase = "error", !.error = message,
            !.errorCount = s.errorCount + 1]

\* loading and supported are the capabilitiesLoading and isSupported the
\* startSession closure of the render captured
startSession(s, loading, supported) ==
  LET checking == [s EXCEPT !.phase = "checking", !.error = "null"]
  IN IF loading THEN checking
     ELSE IF ~supported THEN handleSessionError(checking, ErrUnsupported)
     ELSE [checking EXCEPT !.phase = "requesting_camera"]

endSession(s) ==
  [s EXCEPT !.phase = "idle", !.cameraReady = FALSE, !.arReady = FALSE,
            !.markerDetected = FALSE]

handleCameraReady(s) ==
  [s EXCEPT !.cameraReady = TRUE,
            !.phase = IF s.arReady THEN "active" ELSE "initializing"]

\* CameraHandler classifies the DOMException name (startCamera's catch)
ErrorTypeOf(name) ==
  CASE name = "NotAllowedError" -> "permission_denied"
    [] name = "NotFoundError" -> "no_camera"
    [] name = "NotReadableError" -> "camera_busy"
    [] OTHER -> "unknown"

\* the message handleCameraError builds from (error, errorType)
handleCameraError(domMessage, errorType) ==
  IF errorType = "permission_denied" THEN PermissionGuidance
  ELSE "Camera error: " \o domMessage

\* what CameraHandler passes upward: onPermissionDenied(error) carries no
\* errorType, onError(error, errorType) does
ReportedCameraError(name) ==
  IF ErrorTypeOf(name) = "permission_denied"
  THEN handleCameraError(DomMessage(name), "undefined")
  ELSE handleCameraError(DomMessage(name), ErrorTypeOf(name))

handleMarkerFound(s) ==
  [s EXCEPT !.markerDetected = TRUE, !.markerDetections = s.markerDetections + 1]

handleMarkerLost(s) == [s EXCEPT !.markerDetected = FALSE]

\* the "Update AR ready state" effect's updater
arReadyEffect(s) == [s EXCEPT !.arReady = TRUE, !.phase = "active"]

\* which children a render mounts
RendersCameraHandler(r) == r.phase \in {"requesting_camera", "initializing", "active"}
RendersARScene(r) == RendersCameraHandler(r) /\ r.cameraReady


-----------------------------------------------------------------------------
(* The AR session: initial state (ARSessionManager just rendered for the   *)
(* first time, its mount effects still to run) and one action per event.   *)
(* A state update made by a handler is rendered at once when no effects    *)
(* are pending; otherwise React first runs the pending passive effects of  *)
(* the previous render (Flush) and renders the queued updates after them.  *)

Op(kind, inst, stream) == [kind |-> kind, inst |-> inst, stream |-> stream]

Snapshot(s, stream, loading, supported) ==
  [phase |-> s.phase, cameraReady |-> s.cameraReady, cameraStream |-> stream,
   capabilitiesLoading |-> loading, isSupported |-> supported]

NoPending == [render |-> FALSE, endSession |-> FALSE]

\* a handler has set the state to (s, stream, loading, supported);
\* endChanged: the update changes startTime or the statistics object, hence
\* the identity of the endSession callback of the next render
Update(s, stream, loading, supported, endChanged) ==
  /\ sessionState' = s
  /\ cameraStream' = stream
  /\ capabilitiesLoading' = loading
  /\ isSupported' = supported
  /\ dirty' = TRUE
  /\ UNCHANGED committed
  /\ IF dirty
     THEN /\ pending' = [render |-> TRUE, endSession |-> pending.endSession \/ endChanged]
          /\ UNCHANGED <<rendered, endSessionChanged>>
     ELSE /\ rendered' = Snapshot(s, stream, loading, supported)
          /\ endSessionChanged' = endChanged
          /\ pending' = NoPending

ARInit ==
  /\ sessionState = [phase |-> "idle", error |-> "null", cameraReady |-> FALSE,
                     arReady |-> FALSE, markerDetected |-> FALSE,
                     markerDetections |-> 0, errorCount |-> 0]
  /\ cameraStream = 0
  /\ capabilitiesLoading = TRUE
  /\ isSupported = FALSE
  /\ rendered = Snapshot(sessionState, 0, TRUE, FALSE)
  /\ dirty = TRUE
  /\ committed = [phase |-> "unmounted", cameraReady |-> FALSE,
                  capabilitiesLoading |-> TRUE]
  /\ endSessionChanged = FALSE
  /\ pending = NoPending
  /\ chInst = 0
  /\ nextInst = 1
  /\ chCaps = "none"
  /\ streamRef = 0
  /\ scene = NoScene
  /\ inflight = {}
  /\ nextStream = 1
  /\ liveStreams = {}
  /\ lastEvent = "mount"
  /\ failedInit = 0

Init ==
  /\ ARInit
  /\ sm = "unused"
  /\ cu = "unused"
  /\ qr = "unused"
  /\ api = "unused"
  /\ mo = "unused"
  /\ ss = "unused"
  /\ pm = "unused"
  /\ am = "unused"
  /\ eh = "unused"

\* useDeviceCapabilities of ARSessionManager settles (assessCapabilities)
CapabilitiesLoaded(supported) ==
  /\ capabilitiesLoading
  /\ Update(sessionState, cameraStream, FALSE, supported, FALSE)
  /\ lastEvent' = "capabilitiesLoaded"
  /\ UNCHANGED <<chInst, nextInst, chCaps, streamRef, scene, inflight, nextStream,
                 liveStreams, failedInit, sm, cu, qr, others>>

\* the retry button of the error screen: onClick={startSession}
Retry ==
  /\ ~dirty
  /\ rendered.phase = "error"
  /\ LET s == startSession(sessionState, rendered.capabilitiesLoading,
                           rendered.isSupported)
     IN /\ s.errorCount <= MaxErrors
        /\ Update(s, cameraStream, capabilitiesLoading, isSupported, TRUE)
  /\ failedInit' = 0
  /\ lastEvent' = "retry"
  /\ UNCHANGED <<chInst, nextInst, chCaps, streamRef, scene, inflight, nextStream,
                 liveStreams, sm, cu, qr, others>>

\* the end-session button of the session controls: onClick={endSession}
EndClick ==
  /\ ~dirty
  /\ RendersCameraHandler(rendered)
  /\ Update(endSession(sessionState), 0, capabilitiesLoading, isSupported, TRUE)
  /\ failedInit' = 0
  /\ lastEvent' = "endClick"
  /\ UNCHANGED <<chInst, nextInst, chCaps, streamRef, scene, inflight, nextStream,
                 liveStreams, sm, cu, qr, others>>

\* The passive effects of the committed render, cleanups first and then the
\* effect bodies, children before parents; the state updates they queue are
\* applied after the updates already queued, and the result is rendered.
Flush ==
  /\ dirty
  /\ LET R == rendered
         C == committed
         phaseChanged == R.phase # C.phase
         \* cleanup effect, deps [sessionState.phase, endSession]: the cleanup
         \* installed by the previous run sees the phase of that render
         callsEnd == (phaseChanged \/ endSessionChanged) /\ C.phase = "active"
         \* auto-start effect, deps [autoStart, capabilitiesLoading, phase, startSession]
         autoRuns == /\ phaseChanged \/ R.capabilitiesLoading # C.capabilitiesLoading
                     /\ autoStart /\ ~R.capabilitiesLoading /\ R.phase = "idle"
         \* AR-ready effect, deps [cameraReady, phase, updateSession]
         readyRuns == /\ phaseChanged \/ R.cameraReady # C.cameraReady
                      /\ R.cameraReady /\ R.phase = "initializing"
         s1 == IF callsEnd THEN endSession(sessionState) ELSE sessionState
         s2 == IF autoRuns
               THEN startSession(s1, R.capabilitiesLoading, R.isSupported) ELSE s1
         s3 == IF readyRuns THEN arReadyEffect(s2) ELSE s2
         stream3 == IF callsEnd THEN 0 ELSE cameraStream
         queued == callsEnd \/ autoRuns \/ readyRuns
         again == pending.render \/ queued
         \* CameraHandler: unmount cleanup stopCamera(), or mount
         chUnmount == chInst # 0 /\ ~RendersCameraHandler(R)
         chMount == chInst = 0 /\ RendersCameraHandler(R)
         inst1 == IF chUnmount THEN 0 ELSE IF chMount THEN nextInst ELSE chInst
         \* ARScene: unmount cleanup stopAR(), mount, or a changed cameraStream prop
         scUnmount == scene.st # "none" /\ ~RendersARScene(R)
         scMount == scene.st = "none" /\ RendersARScene(R)
         scReinit == /\ scene.st \in {"waiting", "init", "initfailed"}
                     /\ RendersARScene(R)
                     /\ R.cameraStream # scene.stream /\ R.cameraStream # 0
         initOps == IF (scMount /\ R.cameraStream # 0) \/ scReinit
                    THEN {Op("init", inst1, R.cameraStream)} ELSE {}
         capsOps == IF chMount THEN {Op("chcaps", nextInst, 0)} ELSE {}
     IN /\ chMount => nextInst <= MaxInst
        /\ s3.errorCount <= MaxErrors
        /\ sessionState' = s3
        /\ cameraStream' = stream3
        /\ rendered' = IF again
                       THEN Snapshot(s3, stream3, capabilitiesLoading, isSupported)
                       ELSE rendered
        /\ dirty' = again
        /\ endSessionChanged' = (pending.endSession \/ callsEnd \/ autoRuns)
        /\ pending' = NoPending
        /\ committed' = [phase |-> R.phase, cameraReady |-> R.cameraReady,
                         capabilitiesLoading |-> R.capabilitiesLoading]
        /\ chInst' = inst1
        /\ nextInst' = IF chMount THEN nextInst + 1 ELSE nextInst
        /\ chCaps' = IF chUnmount THEN "none" ELSE IF chMount THEN "loading" ELSE chCaps
        /\ streamRef' = IF chUnmount \/ chMount THEN 0 ELSE streamRef
        /\ liveStreams' = IF chUnmount THEN liveStreams \ {streamRef} ELSE liveStreams
        /\ scene' = IF scUnmount THEN NoScene
                    ELSE IF scMount
                    THEN [inst |-> inst1,
                          st |-> IF R.cameraStream # 0 THEN "init" ELSE "waiting",
                          markerVisible |-> FALSE, stream |-> R.cameraStream]
                    ELSE IF scReinit
                    THEN [scene EXCEPT !.st = "init", !.stream = R.cameraStream]
                    ELSE scene
        /\ inflight' = inflight \cup initOps \cup capsOps
  /\ lastEvent' = "flush"
  /\ UNCHANGED <<capabilitiesLoading, isSupported, nextStream, failedInit, sm, cu, qr, others>>

\* CameraHandler's own capability assessment settles; its auto-start effect
\* then runs getAvailableDevices().then(startCamera)
CameraCapabilitiesLoaded(op, supported) ==
  /\ op \in inflight /\ op.kind = "chcaps"
  /\ IF op.inst = chInst
     THEN /\ chCaps' = IF supported THEN "supported" ELSE "unsupported"
          /\ inflight' = (inflight \ {op}) \cup
                           (IF supported THEN {Op("gum", op.inst, 0)} ELSE {})
     ELSE /\ inflight' = inflight \ {op}
          /\ UNCHANGED chCaps
  /\ lastEvent' = "cameraCapabilitiesLoaded"
  /\ UNCHANGED <<sessionState, cameraStream, capabilitiesLoading, isSupported, rendered,
                 dirty, committed, endSessionChanged, pending, chInst, nextInst,
                 streamRef, scene, nextStream, liveStreams, failedInit, sm, cu, qr, others>>

\* startCamera: getUserMedia resolves; onCameraReady(stream) -> handleCameraReady
CameraGranted(op) ==
  /\ op \in inflight /\ op.kind = "gum"
  /\ inflight' = inflight \ {op}
  /\ liveStreams' = liveStreams \cup {nextStream}
  /\ nextStream' = nextStream + 1
  /\ streamRef' = IF op.inst = chInst THEN nextStream ELSE streamRef
  /\ Update(handleCameraReady(sessionState), nextStream, capabilitiesLoading,
            isSupported, FALSE)
  /\ lastEvent' = "cameraGranted"
  /\ UNCHANGED <<chInst, nextInst, chCaps, scene, failedInit, sm, cu, qr, others>>

\* startCamera: getUserMedia rejects; onPermissionDenied / onError -> handleCameraError
CameraRejected(op, name) ==
  /\ op \in inflight /\ op.kind = "gum"
  /\ sessionState.errorCount < MaxErrors
  /\ inflight' = inflight \ {op}
  /\ Update(handleSessionError(sessionState, ReportedCameraError(name)),
            cameraStream, capabilitiesLoading, isSupported, TRUE)
  /\ lastEvent' = "cameraRejected"
  /\ UNCHANGED <<chInst, nextInst, chCaps, streamRef, scene, nextStream, liveStreams,
                 failedInit, sm, cu, qr, others>>

\* ARScene: fetchVampireMessage().then(initializeMindAR) resolves; the
\* auto-start effect then calls startAR, which awaits mindAR.start()
MindARInitialized(op) ==
  /\ op \in inflight /\ op.kind = "init"
  /\ IF op.inst = scene.inst /\ scene.st = "init"
     THEN /\ scene' = [scene EXCEPT !.st = "starting"]
          /\ inflight' = (inflight \ {op}) \cup {Op("start", op.inst, op.stream)}
     ELSE /\ inflight' = inflight \ {op}
          /\ UNCHANGED scene
  /\ lastEvent' = "mindarInitialized"
  /\ UNCHANGED <<sessionState, cameraStream, capabilitiesLoading, isSupported, rendered,
                 dirty, committed, endSessionChanged, pending, chInst, nextInst, chCaps,
                 streamRef, nextStream, liveStreams, failedInit, sm, cu, qr, others>>

\* ARScene: initialization rejects; .catch calls onError -> handleARError
MindARInitFailed(op) ==
  /\ op \in inflight /\ op.kind = "init"
  /\ sessionState.errorCount < MaxErrors
  /\ inflight' = inflight \ {op}
  /\ scene' = IF op.inst = scene.inst /\ scene.st = "init"
              THEN [scene EXCEPT !.st = "initfailed"] ELSE scene
  /\ Update(handleSessionError(sessionState, ErrMindAR), cameraStream,
            capabilitiesLoading, isSupported, TRUE)
  /\ failedInit' = op.stream
  /\ lastEvent' = "mindarInitFailed"
  /\ UNCHANGED <<chInst, nextInst, chCaps, streamRef, nextStream, liveStreams,
                 sm, cu, qr, others>>

\* ARScene.startAR: mindAR.start() resolves
ARStarted(op) ==
  /\ op \in inflight /\ op.kind = "start"
  /\ inflight' = inflight \ {op}
  /\ scene' = IF op.inst = scene.inst /\ scene.st = "starting"
              THEN [scene EXCEPT !.st = "running"] ELSE scene
  /\ lastEvent' = "arStarted"
  /\ UNCHANGED <<sessionState, cameraStream, capabilitiesLoading, isSupported, rendered,
                 dirty, committed, endSessionChanged, pending, chInst, nextInst, chCaps,
                 streamRef, nextStream, liveStreams, failedInit, sm, cu, qr, others>>

\* ARScene.startAR: mindAR.start() rejects; catch calls onError
ARStartFailed(op) ==
  /\ op \in inflight /\ op.kind = "start"
  /\ sessionState.errorCount < MaxErrors
  /\ inflight' = inflight \ {op}
  /\ scene' = IF op.inst = scene.inst /\ scene.st = "starting"
              THEN [scene EXCEPT !.st = "startfailed"] ELSE scene
  /\ Update(handleSessionError(sessionState, ErrStartAR), cameraStream,
            capabilitiesLoading, isSupported, TRUE)
  /\ lastEvent' = "arStartFailed"
  /\ UNCHANGED <<chInst, nextInst, chCaps, streamRef, nextStream, liveStreams,
                 failedInit, sm, cu, qr, others>>

\* anchor.onTargetFound -> onMarkerFound -> handleMarkerFound
MarkerFound ==
  /\ scene.st = "running" /\ ~scene.markerVisible
  /\ sessionState.markerDetections < MaxDetections
  /\ scene' = [scene EXCEPT !.markerVisible = TRUE]
  /\ Update(handleMarkerFound(sessionState), cameraStream, capabilitiesLoading,
            isSupported, TRUE)
  /\ lastEvent' = "markerFound"
  /\ UNCHANGED <<chInst, nextInst, chCaps, streamRef, inflight, nextStream,
                 liveStreams, failedInit, sm, cu, qr, others>>

\* anchor.onTargetLost -> onMarkerLost -> handleMarkerLost
MarkerLost ==
  /\ scene.st = "running" /\ scene.markerVisible
  /\ scene' = [scene EXCEPT !.markerVisible = FALSE]
  /\ Update(handleMarkerLost(sessionState), cameraStream, capabilitiesLoading,
            isSupported, FALSE)
  /\ lastEvent' = "markerLost"
  /\ UNCHANGED <<chInst, nextInst, chCaps, streamRef, inflight, nextStream,
                 liveStreams, failedInit, sm, cu, qr, others>>

Next ==
  \/ \E supported \in BOOLEAN : CapabilitiesLoaded(supported)
  \/ Retry
  \/ EndClick
  \/ Flush
  \/ \E op \in inflight, supported \in BOOLEAN : CameraCapabilitiesLoaded(op, supported)
  \/ \E op \in inflight : CameraGranted(op)
  \/ \E op \in inflight, name \in CameraErrorNames : CameraRejected(op, name)
  \/ \E op \in inflight : MindARInitialized(op)
  \/ \E op \in inflight : MindARInitFailed(op)
  \/ \E op \in inflight : ARStarted(op)
  \/ \E op \in inflight : ARStartFailed(op)
  \/ MarkerFound
  \/ MarkerLost

Spec == Init /\ [][Next]_vars

\* sessionAPI.start, handed to the children render prop: a child calls the
\* startSession of the committed render while no session is running
ApiStart ==
  /\ ~dirty
  /\ rendered.phase = "idle"
  /\ LET s == startSession(sessionState, rendered.capabilitiesLoading,
                           rendered.isSupported)
     IN /\ s.errorCount <= MaxErrors
        /\ Update(s, cameraStream, capabilitiesLoading, isSupported, TRUE)
  /\ lastEvent' = "apiStart"
  /\ UNCHANGED <<chInst, nextInst, chCaps, streamRef, scene, inflight, nextStream,
                 liveStreams, failedInit, sm, cu, qr, others>>

StartNext ==
  \/ ApiStart
  \/ Next

\* React runs the pending effects, and the capability assessment settles
StartSpec ==
  /\ Init
  /\ [][StartNext]_vars
  /\ WF_vars(Flush)
  /\ WF_vars(\E supported \in BOOLEAN : CapabilitiesLoaded(supported))

-----------------------------------------------------------------------------
(* Claims about the AR session phase machine (specification Spec)          *)

ARTypeOK ==
  /\ sessionState.phase \in Phases
  /\ sessionState.markerDetections \in 0..MaxDetections
  /\ sessionState.errorCount \in 0..MaxErrors
  /\ chInst \in 0..MaxInst
  /\ liveStreams \subseteq 1..(nextStream - 1)

\* C1: once the phase is "error" it leaves "error" only by the retry button
\* (startSession invoked by the user); no effect, callback or cleanup moves it.
C1_ErrorUntilRetry ==
  [][(sessionState.phase = "error" /\ sessionState'.phase # "error")
       => lastEvent' = "retry"]_vars

\* MindAR initialization has succeeded for the mounted ARScene
MindARReady == scene.st \in {"starting", "running", "startfailed"}

\* C2: the session reaches phase "active" only through camera acquisition and
\* then MindAR initialization: the phase is never "active" before MindAR
\* initialization has succeeded.
C2_ActiveOnlyAfterMindAR == sessionState.phase = "active" => MindARReady

\* C3: after a MindAR initialization failure with an acquired camera stream the
\* session ends up (effects settled) in phase "error" with a stored message and
\* with that stream's tracks stopped.
C3_InitFailureEndsInError ==
  (failedInit # 0 /\ ~dirty)
    => /\ sessionState.phase = "error"
       /\ sessionState.error # "null"
       /\ failedInit \notin liveStreams

\* C4: while the phase is "active", a marker-found or marker-lost event leaves
\* the phase "active": the effects it triggers neither end nor restart the session.
C4_MarkerEventsKeepActive ==
  [][(lastEvent \in {"markerFound", "markerLost"} /\ sessionState.phase = "active"
        /\ lastEvent' = "flush")
       => sessionState'.phase = "active"]_vars

\* reachable cases of the claims above
\* C26: when getUserMedia is rejected with NotAllowedError the session enters
\* phase error with the permission guidance as its error text, and the error
\* panel with the retry button is what is rendered next.
C26_DenialShowsGuidance ==
  [][(\E op \in inflight : CameraRejected(op, "NotAllowedError"))
       => /\ sessionState'.phase = "error"
          /\ sessionState'.error = PermissionGuidance
          /\ pending'.render \/ rendered'.phase = "error"]_vars

\* the denial was reported through onPermissionDenied(error): error panel
\* rendered, with the DOMException's message in place of the guidance
C26_Witness ==
  /\ lastEvent = "cameraRejected"
  /\ sessionState.phase = "error" /\ rendered.phase = "error"
  /\ sessionState.error = "Camera error: Permission denied"

C32_EndedStaysIdle ==
  [][(lastEvent = "endClick" /\ sessionState.phase = "idle" /\ lastEvent' = "flush")
       => sessionState'.phase = "idle"]_vars

\* a session that had mounted CameraHandler was ended, and the effects of
\* the idle render have started the next one
C32_Witness ==
  /\ lastEvent = "flush"
  /\ committed.phase = "idle"
  /\ nextInst > 1
  /\ sessionState.phase = "requesting_camera"

\* C29: once CameraHandler has unmounted (its cleanup calls stopCamera) no
\* MediaStream it acquired has a live track, a stream whose getUserMedia
\* request was in flight at the unmount included; while it is mounted the
\* only live stream is the one in streamRef.
C29_NoLiveStreamAfterStop ==
  /\ chInst = 0 => liveStreams = {}
  /\ liveStreams \subseteq {streamRef}

\* CameraHandler unmounted with getUserMedia in flight; the request was
\* granted afterwards and nothing is left to stop the stream
C29_Witness ==
  /\ chInst = 0 /\ streamRef = 0 /\ liveStreams # {}
  /\ lastEvent = "cameraGranted"
  /\ \A op \in inflight : op.kind # "gum"

C1_Witness == sessionState.phase = "error" /\ lastEvent = "mindarInitFailed"
C2_Witness == sessionState.phase = "active" /\ scene.st = "running" /\ ~dirty
C3_Witness == failedInit # 0 /\ failedInit \in liveStreams /\ sessionState.phase = "error"
C4_Witness == lastEvent = "markerLost" /\ sessionState.phase = "active"

-----------------------------------------------------------------------------
(* SessionManager (lib/sessionManager.js, src/unnamed/part_000).           *)
(* sm holds the object's fields and its environment: the clock (now, in    *)
(* ms), the pending setTimeout timers, the localStorage item               *)
(* halloween_ar_session, and what the last call delivered to listeners.    *)
(* localStorage is available and setItem succeeds in these specifications. *)

sessionTimeout == 1800000     \* 30 * 60 * 1000
StoredInteractions == 50      \* interactions.slice(-50)
MaxAgeMs == 86400000          \* hoursDiff < 24, in ms

TickMs == sessionTimeout \div 2  \* clock step explored (15 min)
MaxTicks == 2                 \* clock steps explored
MaxTracked == 2               \* explicit tracking calls explored
MaxListeners == 1             \* listener registrations explored
MaxBurst == 52                \* tracking calls of the burst specification

Listeners == {1}
TrackTypes == {"ar_start", "ar_end", "error_occurred"}

Absent == -1                  \* an undefined / null time field

SetMin(S) == CHOOSE x \in S : \A y \in S : x <= y
Last(s, n) == SubSeq(s, IF Len(s) > n THEN Len(s) - n + 1 ELSE 1, Len(s))

\* sessionData = {}
NoData == [sessionId |-> "undefined", startTime |-> Absent, endTime |-> Absent,
           duration |-> Absent, interactionCount |-> Absent, arStartTime |-> Absent,
           arEndTime |-> Absent, arDuration |-> Absent, errors |-> 0]

\* localStorage.getItem('halloween_ar_session') === null
NoItem == [present |-> FALSE, parsable |-> TRUE, sessionData |-> NoData, interactions |-> <<>>,
           sessionState |-> "none", lastSaved |-> Absent]

\* the fields the constructor assigns before it calls initialize()
SM_constructor(now, storage) ==
  [sessionId |-> "null", sessionState |-> "inactive", sessionData |-> NoData,
   interactions |-> <<>>, startTime |-> Absent, lastActivityTime |-> Absent,
   listeners |-> <<>>, timeoutId |-> 0,
   \* environment
   now |-> now, ticks |-> 0, timers |-> {}, storage |-> storage,
   activityTracking |-> FALSE,
   storageFails |-> FALSE,   \* localStorage.setItem throws (quota exceeded)
   thrown |-> FALSE,         \* an exception has left a method of the object
   \* bookkeeping of the exploration
   emitted |-> <<>>, nextId |-> 1, tracked |-> 0, lastOp |-> "new", expired |-> FALSE]

\* resetSessionTimeout without its clearTimeout
SM_resetSessionTimeout_noClear(m) ==
  LET id == SetMin((1..(Cardinality(m.timers) + 1)) \ {t.id : t \in m.timers})
  IN [m EXCEPT !.timers = @ \cup {[id |-> id, deadline |-> m.now + sessionTimeout]},
               !.timeoutId = id]

SM_resetSessionTimeout(m) ==
  LET kept == IF m.timeoutId # 0 THEN {t \in m.timers : t.id # m.timeoutId}
              ELSE m.timers
      id == SetMin((1..(Cardinality(kept) + 1)) \ {t.id : t \in kept})
  IN [m EXCEPT !.timers = kept \cup {[id |-> id, deadline |-> m.now + sessionTimeout]},
               !.timeoutId = id]

\* saveSessionData without the slice(-50)
SM_saveSessionData_noSlice(m) ==
  [m EXCEPT !.storage = [present |-> TRUE, parsable |-> TRUE, sessionData |-> m.sessionData,
                         interactions |-> m.interactions,
                         sessionState |-> m.sessionState,
                         lastSaved |-> m.now]]

\* saveSessionData without its try / catch
SM_saveSessionData_uncaught(m) ==
  IF m.storageFails THEN [m EXCEPT !.thrown = TRUE]
  ELSE [m EXCEPT !.storage = [present |-> TRUE, parsable |-> TRUE, sessionData |-> m.sessionData,
                              interactions |-> Last(m.interactions, StoredInteractions),
                              sessionState |-> m.sessionState,
                              lastSaved |-> m.now]]

\* a setItem that throws is caught and logged: the stored item is unchanged
SM_saveSessionData(m) ==
  IF m.storageFails THEN m
  ELSE [m EXCEPT !.storage = [present |-> TRUE, parsable |-> TRUE, sessionData |-> m.sessionData,
                              interactions |-> Last(m.interactions, StoredInteractions),
                              sessionState |-> m.sessionState,
                              lastSaved |-> m.now]]

\* loadSessionData without the check of the snapshot's age
SM_loadSessionData_anyAge(m) ==
  IF m.storage.present /\ m.storage.parsable
  THEN [m EXCEPT !.interactions = m.storage.interactions]
  ELSE m

\* a JSON.parse that throws is caught and logged: nothing is adopted
SM_loadSessionData(m) ==
  IF m.storage.present /\ m.storage.parsable
     /\ m.now - m.storage.lastSaved < MaxAgeMs
  THEN [m EXCEPT !.interactions = m.storage.interactions]
  ELSE m

SM_notifyListeners(m, event) ==
  [m EXCEPT !.emitted = m.emitted \o
      [i \in 1..Len(m.listeners) |-> [listener |-> m.listeners[i], event |-> event]]]

\* handleSpecialInteractions whose ar_end does not look at the state
SM_handleSpecialInteractions_anyState(m, type) ==
  CASE type = "ar_start" ->
         [m EXCEPT !.sessionState = "ar_active", !.sessionData.arStartTime = m.now]
    [] type = "ar_end" ->
         [m EXCEPT !.sessionState = "active", !.sessionData.arEndTime = m.now]
    [] type = "error_occurred" ->
         [m EXCEPT !.sessionData.errors = @ + 1]
    [] OTHER -> m

SM_handleSpecialInteractions(m, type) ==
  CASE type = "ar_start" ->
         [m EXCEPT !.sessionState = "ar_active", !.sessionData.arStartTime = m.now]
    [] type = "ar_end" /\ m.sessionState = "ar_active" ->
         [m EXCEPT !.sessionState = "active", !.sessionData.arEndTime = m.now,
                   !.sessionData.arDuration =
                      IF m.sessionData.arStartTime # Absent
                      THEN m.now - m.sessionData.arStartTime ELSE @]
    [] type = "error_occurred" ->
         [m EXCEPT !.sessionData.errors = @ + 1]
    [] OTHER -> m

\* trackInteraction without its guard on the inactive state
SM_trackInteraction_noGuard(m, type) ==
  LET interaction == [id |-> m.nextId, sessionId |-> m.sessionId, type |-> type]
      m1 == [m EXCEPT !.interactions = Append(@, interaction),
                      !.lastActivityTime = m.now, !.nextId = @ + 1]
      m2 == SM_saveSessionData(SM_resetSessionTimeout(m1))
  IN SM_handleSpecialInteractions(SM_notifyListeners(m2, "interaction"), type)

\* trackInteraction merging a call into the previous record of the same type
SM_trackInteraction_dedup(m, type) ==
  IF m.sessionState = "inactive" THEN m
  ELSE LET n == Len(m.interactions)
           interaction == [id |-> m.nextId, sessionId |-> m.sessionId, type |-> type]
           m1 == [m EXCEPT !.interactions =
                             IF n > 0 /\ m.interactions[n].type = type THEN @
                             ELSE Append(@, interaction),
                           !.lastActivityTime = m.now, !.nextId = @ + 1]
           m2 == SM_saveSessionData(SM_resetSessionTimeout(m1))
       IN SM_handleSpecialInteractions(SM_notifyListeners(m2, "interaction"), type)

SM_trackInteraction(m, type) ==
  IF m.sessionState = "inactive" THEN m
  ELSE LET interaction == [id |-> m.nextId, sessionId |-> m.sessionId, type |-> type]
           m1 == [m EXCEPT !.interactions = Append(@, interaction),
                           !.lastActivityTime = m.now, !.nextId = @ + 1]
           m2 == SM_saveSessionData(SM_resetSessionTimeout(m1))
       IN SM_handleSpecialInteractions(SM_notifyListeners(m2, "interaction"), type)

SM_startSession(m) ==
  LET m1 == [m EXCEPT !.startTime = m.now, !.lastActivityTime = m.now,
                      !.sessionState = "active",
                      !.sessionData = [NoData EXCEPT !.sessionId = m.sessionId,
                                                     !.startTime = m.now]]
      m2 == SM_trackInteraction(m1, "page_visit")
  IN SM_notifyListeners(SM_saveSessionData(SM_resetSessionTimeout(m2)), "sessionStart")

\* endSession saving the snapshot before it marks the session completed
SM_endSession_saveFirst(m) ==
  IF m.sessionState = "inactive" THEN m
  ELSE LET m1 == SM_saveSessionData(
                   [m EXCEPT !.sessionData.endTime = m.now,
                             !.sessionData.duration = m.now - m.startTime,
                             !.sessionData.interactionCount = Len(m.interactions)])
           m2 == [m1 EXCEPT !.sessionState = "completed",
                            !.timers = {t \in @ : t.id # m1.timeoutId},
                            !.timeoutId = 0]
       IN SM_notifyListeners(m2, "sessionEnd")

SM_endSession(m) ==
  IF m.sessionState = "inactive" THEN m
  ELSE LET m1 == [m EXCEPT !.sessionData.endTime = m.now,
                           !.sessionData.duration = m.now - m.startTime,
                           !.sessionData.interactionCount = Len(m.interactions),
                           !.sessionState = "completed"]
           m2 == IF m1.timeoutId # 0
                 THEN [m1 EXCEPT !.timers = {t \in @ : t.id # m1.timeoutId},
                                 !.timeoutId = 0]
                 ELSE m1
       IN SM_notifyListeners(SM_saveSessionData(m2), "sessionEnd")

\* the listener setupActivityTracking registers for mouse, key, scroll and touch
SM_updateActivity(m) == SM_resetSessionTimeout([m EXCEPT !.lastActivityTime = m.now])

SM_setupActivityTracking(m) == [m EXCEPT !.activityTracking = TRUE]

SM_initialize(m) ==
  SM_setupActivityTracking(
    SM_startSession(SM_loadSessionData([m EXCEPT !.sessionId = "cur"])))

SM_clearSessionData(m) ==
  [m EXCEPT !.sessionData = NoData, !.interactions = <<>>, !.storage = NoItem]

SM_getSessionStats(m) ==
  [sessionId |-> m.sessionId, state |-> m.sessionState,
   duration |-> IF m.startTime # Absent THEN m.now - m.startTime ELSE 0,
   interactionCount |-> Len(m.interactions),
   startTime |-> m.startTime, lastActivity |-> m.lastActivityTime]

SM_exportSessionData(m) ==
  [session |-> m.sessionData, interactions |-> m.interactions,
   stats |-> SM_getSessionStats(m)]

-----------------------------------------------------------------------------
(* SessionManager: one action per call or event. Every call starts with an *)
(* empty delivery record (emitted) and names itself in lastOp.             *)

Begin(m) == [m EXCEPT !.emitted = <<>>]

SM_Step(m, op) ==
  /\ sm' = [m EXCEPT !.lastOp = op]
  /\ UNCHANGED <<arVars, cu, qr, others>>

\* the snapshot an earlier session left in localStorage: k interactions
PrevBlob(k, savedAt) ==
  [present |-> TRUE, parsable |-> TRUE,
   sessionData |-> [NoData EXCEPT !.sessionId = "prev"],
   interactions |-> [i \in 1..k |-> [id |-> i, sessionId |-> "prev", type |-> "qr_scan"]],
   sessionState |-> "completed", lastSaved |-> savedAt]

\* the page is loaded MaxAgeMs after the clock's origin, so that an earlier
\* snapshot can be exactly 24 hours old (savedAt = 0) or 1 ms younger
StartNow == MaxAgeMs
EarlierStorage == {NoItem, PrevBlob(1, 0), PrevBlob(1, 1)}

\* sessionManager = new SessionManager()
SMInit ==
  /\ ARInit
  /\ \E st \in EarlierStorage :
       sm = [SM_initialize(SM_constructor(StartNow, st)) EXCEPT !.lastOp = "initialize"]
  /\ cu = "unused"
  /\ qr = "unused"
  /\ api = "unused"
  /\ mo = "unused"
  /\ ss = "unused"
  /\ pm = "unused"
  /\ am = "unused"
  /\ eh = "unused"

SM_Track(type) ==
  SM_Step(SM_trackInteraction([Begin(sm) EXCEPT !.tracked = @ + 1], type),
          "trackInteraction")

\* endSession(), called by the application or by the 'beforeunload' listener
SM_End == SM_Step(SM_endSession(Begin(sm)), "endSession")

\* window mousedown / mousemove / keypress / scroll / touchstart / click listener
SM_Activity ==
  /\ sm.activityTracking
  /\ SM_Step(SM_updateActivity(Begin(sm)), "activity")

\* document 'visibilitychange' listener
SM_Visibility(hidden) ==
  /\ sm.activityTracking
  /\ LET m == [Begin(sm) EXCEPT !.tracked = @ + 1]
     IN SM_Step(IF hidden THEN SM_trackInteraction(m, "page_hidden")
                ELSE SM_updateActivity(SM_trackInteraction(m, "page_visible")),
                "visibilitychange")

\* the setTimeout callback of resetSessionTimeout; timers fire when due
SM_Timeout ==
  \E t \in sm.timers :
    /\ sm.now >= t.deadline
    /\ SM_Step(SM_endSession([Begin(sm) EXCEPT !.timers = @ \ {t}, !.expired = TRUE]),
               "timeout")

\* time passes, up to the next deadline; a timer that is due fires first
SM_Tick ==
  /\ sm.ticks < MaxTicks
  /\ \A t \in sm.timers : sm.now < t.deadline
  /\ LET next == {sm.now + TickMs} \cup {t.deadline : t \in sm.timers}
     IN SM_Step([sm EXCEPT !.now = SetMin(next), !.ticks = @ + 1], "tick")

SM_AddListener(l) ==
  /\ Len(sm.listeners) < MaxListeners
  /\ SM_Step([Begin(sm) EXCEPT !.listeners = Append(@, l)], "addListener")

\* indexOf + splice: the first registration of l is removed
SM_RemoveListener(l) ==
  /\ \E i \in 1..Len(sm.listeners) : sm.listeners[i] = l
  /\ LET i == SetMin({j \in 1..Len(sm.listeners) : sm.listeners[j] = l})
     IN SM_Step([Begin(sm) EXCEPT !.listeners =
                    SubSeq(@, 1, i - 1) \o SubSeq(@, i + 1, Len(@))], "removeListener")

SM_Clear == SM_Step(SM_clearSessionData(Begin(sm)), "clearSessionData")

SMNext ==
  \/ \E type \in TrackTypes : sm.tracked < MaxTracked /\ SM_Track(type)
  \/ SM_End
  \/ SM_Activity
  \/ \E hidden \in BOOLEAN : sm.tracked < MaxTracked /\ SM_Visibility(hidden)
  \/ SM_Timeout
  \/ SM_Tick
  \/ \E l \in Listeners : SM_AddListener(l)
  \/ \E l \in Listeners : SM_RemoveListener(l)
  \/ SM_Clear

SMSpec == SMInit /\ [][SMNext]_vars

SMTypeOK ==
  /\ sm.sessionState \in {"active", "ar_active", "completed"}
  /\ Len(sm.interactions) <= MaxTracked + 2
  /\ sm.now >= StartNow

\* the object as the constructor's field initialisers leave it, before the
\* constructor's call of initialize(): the only state in which it is inactive
SMNewInit ==
  /\ ARInit
  /\ \E st \in EarlierStorage : sm = SM_constructor(StartNow, st)
  /\ cu = "unused"
  /\ qr = "unused"
  /\ api = "unused"
  /\ mo = "unused"
  /\ ss = "unused"
  /\ pm = "unused"
  /\ am = "unused"
  /\ eh = "unused"

SM_Initialize ==
  /\ sm.sessionId = "null"
  /\ SM_Step(SM_initialize(Begin(sm)), "initialize")

SMNewNext == SM_Initialize \/ SMNext

SMNewSpec == SMNewInit /\ [][SMNewNext]_vars

\* a burst of tracking calls within one clock tick, on a session that adopted
\* k interactions of an earlier snapshot
SMCapInit ==
  /\ ARInit
  /\ \E k \in {0, 1, StoredInteractions} :
       sm = [SM_initialize(SM_constructor(StartNow, PrevBlob(k, 1)))
               EXCEPT !.lastOp = "initialize"]
  /\ cu = "unused"
  /\ qr = "unused"
  /\ api = "unused"
  /\ mo = "unused"
  /\ ss = "unused"
  /\ pm = "unused"
  /\ am = "unused"
  /\ eh = "unused"

SMCapNext == sm.tracked < MaxBurst /\ SM_Track("qr_scan")

SMCapSpec == SMCapInit /\ [][SMCapNext]_vars

-----------------------------------------------------------------------------
(* Claims about SessionManager                                             *)

Min(a, b) == IF a < b THEN a ELSE b

\* the interactions adopted from an earlier snapshot
Adopted(m) == {i \in 1..Len(m.interactions) : m.interactions[i].sessionId = "prev"}

maxInteractionsPerSession == 100

C7_InactiveTrackIsNoOp ==
  [][(sm.sessionState = "inactive" /\ sm'.lastOp = "trackInteraction")
       => sm' = [sm EXCEPT !.lastOp = "trackInteraction", !.tracked = @ + 1,
                           !.emitted = <<>>]]_vars

C7_Witness ==
  /\ sm.sessionState = "inactive" /\ sm.lastOp = "trackInteraction"
  /\ Len(sm.listeners) > 0 /\ sm.storage.present

\* C8: after endSession on a started session the duration is end time minus
\* start time, the state is completed, no inactivity timer is pending, local
\* storage holds the final snapshot with state completed, and every registered
\* listener has received exactly one sessionEnd event.
C8_EndSessionEffects ==
  sm.lastOp \in {"endSession", "timeout"}
    => /\ sm.sessionData.endTime = sm.now
       /\ sm.sessionData.duration = sm.sessionData.endTime - sm.startTime
       /\ sm.sessionState = "completed"
       /\ sm.timers = {} /\ sm.timeoutId = 0
       /\ sm.storage.present
       /\ sm.storage.sessionState = "completed"
       /\ sm.storage.sessionData = sm.sessionData
       /\ sm.emitted = [i \in 1..Len(sm.listeners) |->
                          [listener |-> sm.listeners[i], event |-> "sessionEnd"]]

C8_Witness ==
  /\ sm.lastOp = "endSession" /\ Len(sm.listeners) > 0
  /\ sm.sessionData.duration > 0 /\ ~sm.expired

-----------------------------------------------------------------------------
(* ErrorHandler (lib/errorHandler.js): the error log of the singleton.     *)

\* String.prototype.includes
Includes(str, sub) ==
  \E i \in 1..(Len(str) - Len(sub) + 1) : SubSeq(str, i, i + Len(sub) - 1) = sub

\* String.prototype.toLowerCase (ASCII letters)
toLowerCase(str) ==
  [i \in 1..Len(str) |-> IF str[i] >= 65 /\ str[i] <= 90 THEN str[i] + 32 ELSE str[i]]

categorizeError(error) ==
  LET message == toLowerCase(error.message)
  IN
     IF \/ Includes(message, <<99, 97, 109, 101, 114, 97>>)   \* camera
        \/ Includes(message, <<109, 101, 100, 105, 97>>)   \* media
        \/ Includes(message, <<118, 105, 100, 101, 111>>)   \* video
       THEN "CAMERA_ERROR"
     ELSE IF \/ Includes(message, <<97, 114>>)   \* ar
             \/ Includes(message, <<109, 97, 114, 107, 101, 114>>)   \* marker
             \/ Includes(message, <<116, 114, 97, 99, 107, 105, 110, 103>>)   \* tracking
       THEN "AR_ERROR"
     ELSE IF \/ Includes(message, <<113, 114>>)   \* qr
             \/ Includes(message, <<99, 111, 100, 101>>)   \* code
       THEN "QR_ERROR"
     ELSE IF \/ Includes(message, <<112, 101, 114, 109, 105, 115, 115, 105, 111, 110>>)   \* permission
             \/ Includes(message, <<100, 101, 110, 105, 101, 100>>)   \* denied
       THEN "PERMISSION_ERROR"
     ELSE IF \/ Includes(message, <<110, 101, 116, 119, 111, 114, 107>>)   \* network
             \/ Includes(message, <<102, 101, 116, 99, 104>>)   \* fetch
             \/ Includes(message, <<99, 111, 110, 110, 101, 99, 116, 105, 111, 110>>)   \* connection
       THEN "NETWORK_ERROR"
     ELSE IF \/ Includes(message, <<98, 114, 111, 119, 115, 101, 114>>)   \* browser
             \/ Includes(message, <<117, 110, 115, 117, 112, 112, 111, 114, 116, 101, 100>>)   \* unsupported
       THEN "BROWSER_ERROR"
     ELSE "VALIDATION_ERROR"

determineSeverity(error) ==
  LET message == toLowerCase(error.message)
  IN
     IF \/ Includes(message, <<99, 114, 105, 116, 105, 99, 97, 108>>)   \* critical
        \/ Includes(message, <<102, 97, 116, 97, 108>>)   \* fatal
       THEN "CRITICAL"
     ELSE IF \/ Includes(message, <<112, 101, 114, 109, 105, 115, 115, 105, 111, 110>>)   \* permission
             \/ Includes(message, <<99, 97, 109, 101, 114, 97>>)   \* camera
             \/ Includes(message, <<97, 114>>)   \* ar
       THEN "HIGH"
     ELSE IF \/ Includes(message, <<110, 101, 116, 119, 111, 114, 107>>)   \* network
             \/ Includes(message, <<99, 111, 110, 110, 101, 99, 116, 105, 111, 110>>)   \* connection
       THEN "MEDIUM"
     ELSE "LOW"

maxLogSize == 100

\* new ARError(message, type, severity, details)
ARError(type, severity) == [type |-> type, severity |-> severity]

\* processError keeps an ARError's own type and severity and infers those of
\* any other Error ([message |-> text]) from its message
EH_processError(error) ==
  IF "type" \in DOMAIN error
  THEN [type |-> error.type, severity |-> error.severity]
  ELSE [type |-> categorizeError(error), severity |-> determineSeverity(error)]

\* logError that refuses the new record when the log is full
EH_logError_keepOldest(log, processedError) ==
  IF Len(log) >= maxLogSize THEN log ELSE Append(log, processedError)

\* logError: push, then shift while over maxLogSize
EH_logError(log, processedError) ==
  LET pushed == Append(log, processedError)
  IN IF Len(pushed) > maxLogSize THEN Tail(pushed) ELSE pushed

\* handleError: processError, logError (the listeners see the same record)
EH_handleError(log, error) == EH_logError(log, EH_processError(error))

EH_handlePermissionError(log) ==
  EH_handleError(log, ARError("PERMISSION_ERROR", "CRITICAL"))

EH_handleCameraError(log) ==
  EH_handleError(log, ARError("CAMERA_ERROR", "HIGH"))

-----------------------------------------------------------------------------
(* CameraUtils (lib/cameraUtils.js, src/unnamed/part_001). cu holds the    *)
(* singleton's fields, the MediaStreams with a live track, the             *)
(* requestCameraAccess calls with the await each one is suspended at, and  *)
(* the error log. navigator.mediaDevices.getUserMedia exists.              *)

CUMaxCalls == 3        \* requestCameraAccess calls explored

PermissionValues == {"granted", "denied", "prompt", "unknown"}

\* the synchronous body of stopCamera()
CU_stopCamera(c) ==
  [c EXCEPT !.live = @ \ {c.currentStream}, !.currentStream = 0,
            !.streamState = "inactive"]

\* requestCameraAccess up to its await of getUserMedia
CU_requestCameraAccess(c) ==
  [c EXCEPT !.streamState = "requesting",
            !.calls = Append(@, [pc |-> "getUserMedia", stream |-> 0])]

\* getUserMedia has resolved with stream s: up to the await of stopCamera()
CU_streamObtained(c, i, s) ==
  [CU_stopCamera([c EXCEPT !.live = @ \cup {s}])
     EXCEPT !.calls[i] = [pc |-> "stopCamera", stream |-> s]]

\* after stopCamera(): up to the await of checkPermissionState()
CU_streamAssigned(c, i) ==
  [c EXCEPT !.currentStream = c.calls[i].stream, !.streamState = "active",
            !.calls[i].pc = "checkPermissionState"]

\* after checkPermissionState(): streamStart and stateChange, return stream
CU_accessGranted(c, i, permission) ==
  [c EXCEPT !.permissionState = permission, !.calls[i].pc = "resolved"]

\* the catch block of requestCameraAccess
CU_accessFailed(c, i, name) ==
  [c EXCEPT !.streamState = "error",
            !.errorLog = IF name = "NotAllowedError"
                         THEN EH_handlePermissionError(@)
                         ELSE EH_handleCameraError(@),
            !.calls[i].pc = "rejected"]

CU_Step(c, op) ==
  /\ cu' = [c EXCEPT !.lastOp = op]
  /\ UNCHANGED <<arVars, sm, qr, others>>

\* cameraUtils = new CameraUtils()
CUInit ==
  /\ ARInit
  /\ sm = "unused"
  /\ qr = "unused"
  /\ api = "unused"
  /\ mo = "unused"
  /\ ss = "unused"
  /\ pm = "unused"
  /\ am = "unused"
  /\ eh = "unused"
  /\ cu = [currentStream |-> 0, streamState |-> "inactive",
           permissionState |-> "unknown", live |-> {}, nextStream |-> 1,
           calls |-> <<>>, errorLog |-> <<>>, lastOp |-> "new"]

CU_Request ==
  /\ Len(cu.calls) < CUMaxCalls
  /\ CU_Step(CU_requestCameraAccess(cu), "requestCameraAccess")

CU_Granted(i) ==
  /\ cu.calls[i].pc = "getUserMedia"
  /\ CU_Step([CU_streamObtained(cu, i, cu.nextStream) EXCEPT !.nextStream = @ + 1],
             "granted")

CU_Rejected(i, name) ==
  /\ cu.calls[i].pc = "getUserMedia"
  /\ CU_Step(CU_accessFailed(cu, i, name),
             IF name = "NotAllowedError" THEN "denied" ELSE "failed")

CU_AfterStop(i) ==
  /\ cu.calls[i].pc = "stopCamera"
  /\ CU_Step(CU_streamAssigned(cu, i), "assigned")

CU_AfterPermission(i, permission) ==
  /\ cu.calls[i].pc = "checkPermissionState"
  /\ CU_Step(CU_accessGranted(cu, i, permission), "resolved")

\* stopCamera() called by the application
CU_Stop ==
  /\ cu.lastOp # "stopCamera"
  /\ CU_Step(CU_stopCamera(cu), "stopCamera")

CUNext ==
  \/ CU_Request
  \/ \E i \in 1..Len(cu.calls) : CU_Granted(i)
  \/ \E i \in 1..Len(cu.calls), name \in CameraErrorNames : CU_Rejected(i, name)
  \/ \E i \in 1..Len(cu.calls) : CU_AfterStop(i)
  \/ \E i \in 1..Len(cu.calls), permission \in PermissionValues :
       CU_AfterPermission(i, permission)
  \/ CU_Stop

CUSpec == CUInit /\ [][CUNext]_vars

\* no requestCameraAccess call is suspended at an await
CU_Quiet == \A i \in 1..Len(cu.calls) : cu.calls[i].pc \in {"resolved", "rejected"}

\* C9: when getUserMedia rejects with NotAllowedError the error is recorded
\* with type PERMISSION_ERROR and severity CRITICAL, the call rejects, and no
\* camera stream is left active, whatever was held before the call.
C9_DenialLeavesNoStream ==
  (cu.lastOp = "denied" /\ CU_Quiet)
    => /\ Len(cu.errorLog) > 0
       /\ cu.errorLog[Len(cu.errorLog)] = ARError("PERMISSION_ERROR", "CRITICAL")
       /\ cu.calls[Len(cu.calls)].pc = "rejected"
       /\ cu.currentStream = 0
       /\ cu.live = {}

\* a denial while a stream obtained by an earlier call is held
C9_Witness ==
  /\ cu.lastOp = "denied" /\ CU_Quiet
  /\ cu.errorLog[Len(cu.errorLog)] = ARError("PERMISSION_ERROR", "CRITICAL")
  /\ cu.streamState = "error"
  /\ cu.currentStream # 0 /\ cu.currentStream \in cu.live

\* C33: for any interleaving of overlapping requestCameraAccess calls, every
\* stream obtained from getUserMedia still has a live track only if it is
\* the one held in currentStream, or the one a call is about to assign.
C33_NoStreamLeaked ==
  cu.live \subseteq
    ({cu.currentStream} \cup
     {cu.calls[i].stream : i \in {j \in 1..Len(cu.calls) : cu.calls[j].pc = "stopCamera"}})

\* two overlapping calls have both returned; the stream of the first is
\* still live and is not the one held
C33_Witness ==
  /\ CU_Quiet
  /\ Len(cu.calls) = 2
  /\ \A i \in 1..2 : cu.calls[i].pc = "resolved"
  /\ cu.currentStream = cu.calls[2].stream
  /\ cu.calls[1].stream \in cu.live
  /\ cu.calls[1].stream # cu.currentStream

-----------------------------------------------------------------------------
(* QRService (services/qrService.js, src/unnamed/part_003): the result     *)
(* cache of generateForUrl / generateForText. Strings are sequences of     *)
(* UTF-16 code units. A 32-bit integer is the pair <<hi, lo>> of its       *)
(* 16-bit halves (two's complement), so that the arithmetic of simpleHash  *)
(* wraps as it does in the code.                                           *)

cacheMaxSize == 100
cacheTimeout == 3600000

QRMaxCalls == 2        \* generate calls explored
QRMaxTicks == 2        \* clock advances explored
QRTickMs == cacheTimeout

Half == 65536

\* the loop of simpleHash from character i on, hash = <<hi, lo>>:
\*   hash = ((hash << 5) - hash) + char; hash = hash & hash
RECURSIVE HashLoop(_, _, _, _)
HashLoop(str, i, hi, lo) ==
  IF i > Len(str) \/ hi < 0 \/ lo < 0 THEN <<hi, lo>>   \* hi, lo are never negative
  ELSE HashLoop(str, i + 1, (hi * 31 + ((lo * 31 + str[i]) \div Half)) % Half,
                (lo * 31 + str[i]) % Half)

\* Math.abs of the signed value of h
MathAbs(h) ==
  IF h[1] < Half \div 2 THEN h
  ELSE <<(Half - 1) - h[1] + (IF h[2] = 0 THEN 1 ELSE 0), (Half - h[2]) % Half>>

\* Number.prototype.toString(36): the base-36 digits, most significant first
RECURSIVE toString36(_)
toString36(n) ==
  LET qh == n[1] \div 36
      low == (n[1] % 36) * Half + n[2]
      ql == low \div 36
      d == low % 36
  IN IF qh = 0 /\ ql = 0 THEN <<d>> ELSE Append(toString36(<<qh, ql>>), d)

simpleHash(str) == toString36(MathAbs(HashLoop(str, 1, 0, 0)))

\* Number.prototype.toString(): the decimal digits of a positive integer
RECURSIVE Decimal(_)
Decimal(n) == IF n < 10 THEN <<48 + n>> ELSE Append(Decimal(n \div 10), 48 + (n % 10))

\* JSON.stringify({ content, config }) for a config object { size }:
\*   {"content":"..","config":{"size":..}}
JSON_stringify(content, config) ==
  <<123, 34, 99, 111, 110, 116, 101, 110, 116, 34, 58, 34>> \o content
    \o <<34, 44, 34, 99, 111, 110, 102, 105, 103, 34, 58, 123,
         34, 115, 105, 122, 101, 34, 58>> \o Decimal(config.size) \o <<125, 125>>

\* a qrCode is given by what its getContent() and getGenerationConfig() return
getCacheKey(qrCode) == simpleHash(JSON_stringify(qrCode.content, qrCode.config))

NoResult == [present |-> FALSE, content |-> <<>>, size |-> 0, createdAt |-> 0]

CacheKeys(cache) == {cache[i].key : i \in 1..Len(cache)}
CacheItem(cache, key) == cache[CHOOSE i \in 1..Len(cache) : cache[i].key = key]
CacheDelete(cache, keys) == SelectSeq(cache, LAMBDA e : e.key \notin keys)

\* getFromCache without the expiration check
getFromCache_noExpiry(cache, key, now) ==
  IF key \notin CacheKeys(cache) THEN [cache |-> cache, data |-> NoResult]
  ELSE [cache |-> cache, data |-> CacheItem(cache, key).data]

\* the cache after the call, and the value returned (NoResult for null)
getFromCache(cache, key, now) ==
  IF key \notin CacheKeys(cache) THEN [cache |-> cache, data |-> NoResult]
  ELSE IF now - CacheItem(cache, key).timestamp > cacheTimeout
       THEN [cache |-> CacheDelete(cache, {key}), data |-> NoResult]
       ELSE [cache |-> cache, data |-> CacheItem(cache, key).data]

\* cleanCache without the second pass over the oldest items
cleanCache_expiredOnly(cache, now) ==
  CacheDelete(cache,
    {cache[i].key : i \in {j \in 1..Len(cache) :
                             now - cache[j].timestamp > cacheTimeout}})

cleanCache(cache, now) ==
  LET fresh == CacheDelete(cache,
                 {cache[i].key : i \in {j \in 1..Len(cache) :
                                          now - cache[j].timestamp > cacheTimeout}})
      \* position of entry i after the (stable) sort by timestamp
      Before(i) == {j \in 1..Len(fresh) :
                      \/ fresh[j].timestamp < fresh[i].timestamp
                      \/ fresh[j].timestamp = fresh[i].timestamp /\ j < i}
      toRemove == {fresh[i].key : i \in {j \in 1..Len(fresh) :
                      Cardinality(Before(j)) < (cacheMaxSize * 2) \div 10}}
  IN IF Len(fresh) >= cacheMaxSize THEN CacheDelete(fresh, toRemove) ELSE fresh

\* Map.prototype.set: an existing key keeps its position
CacheSet(cache, key, item) ==
  IF key \in CacheKeys(cache)
  THEN [i \in 1..Len(cache) |->
          IF cache[i].key = key THEN [item EXCEPT !.key = key] ELSE cache[i]]
  ELSE Append(cache, [item EXCEPT !.key = key])

addToCache(cache, key, data, now) ==
  CacheSet(IF Len(cache) >= cacheMaxSize THEN cleanCache(cache, now) ELSE cache,
           key, [key |-> key, data |-> data, timestamp |-> now])

EH_handleQRError(log) == EH_handleError(log, ARError("QR_ERROR", "MEDIUM"))

\* the (content, config) pairs requested: "Aa" and "BB" at size 256 (their
\* cache keys are equal) and "Ab" at size 256
QRPairs ==
  {[content |-> <<65, 97>>, config |-> [size |-> 256]],
   [content |-> <<66, 66>>, config |-> [size |-> 256]],
   [content |-> <<65, 98>>, config |-> [size |-> 256]]}

FirstPair == [content |-> <<65, 97>>, config |-> [size |-> 256]]

\* the result object built by generateQRCode
QRResult(qrCode, now) ==
  [present |-> TRUE, content |-> qrCode.content, size |-> qrCode.config.size,
   createdAt |-> now]

\* other pairs generated earlier: "C00", "C01", ... at size 256
Filler(i) ==
  [content |-> <<67, 48 + (i \div 10), 48 + (i % 10)>>, config |-> [size |-> 256]]

\* a cache filled to capacity at time 0: FirstPair, then cacheMaxSize - 1 others
FullCache ==
  [i \in 1..cacheMaxSize |->
     LET qrCode == IF i = 1 THEN FirstPair ELSE Filler(i - 2)
     IN [key |-> getCacheKey(qrCode), data |-> QRResult(qrCode, 0), timestamp |-> 0]]

NoLast == [pair |-> FirstPair, hit |-> FALSE, entryAge |-> Absent,
           entryData |-> NoResult, result |-> NoResult, prevCallAt |-> Absent,
           requestsBefore |-> 0]

QR_Step(q, op) ==
  /\ qr' = [q EXCEPT !.lastOp = op]
  /\ UNCHANGED <<arVars, sm, cu, others>>

QRInit ==
  /\ ARInit
  /\ sm = "unused"
  /\ cu = "unused"
  /\ api = "unused"
  /\ mo = "unused"
  /\ ss = "unused"
  /\ pm = "unused"
  /\ am = "unused"
  /\ eh = "unused"
  /\ \E full \in BOOLEAN :
       qr = [cache |-> IF full THEN FullCache ELSE <<>>,
             now |-> 0, ticks |-> 0, calls |-> <<>>, started |-> 0, requests |-> 0,
             lastCallAt |-> [p \in QRPairs |->
                               IF full /\ p = FirstPair THEN 0 ELSE Absent],
             last |-> NoLast, errorLog |-> <<>>, lastOp |-> "new"]

RemoveAt(s, i) == SubSeq(s, 1, i - 1) \o SubSeq(s, i + 1, Len(s))

\* generateForUrl / generateForText up to the return of the cached result or
\* to the await of fetch in generateQRCode
QR_Generate(qrCode) ==
  /\ qr.started < QRMaxCalls
  /\ LET cacheKey == getCacheKey(qrCode)
         got == getFromCache(qr.cache, cacheKey, qr.now)
         hit == got.data.present
         had == cacheKey \in CacheKeys(qr.cache)
     IN QR_Step([qr EXCEPT
          !.cache = got.cache,
          !.started = @ + 1,
          !.requests = IF hit THEN @ ELSE @ + 1,
          !.calls = IF hit THEN @ ELSE Append(@, [qrCode |-> qrCode, cacheKey |-> cacheKey]),
          !.lastCallAt[qrCode] = qr.now,
          !.last = [pair |-> qrCode, hit |-> hit,
                    entryAge |-> IF had THEN qr.now - CacheItem(qr.cache, cacheKey).timestamp
                                 ELSE Absent,
                    entryData |-> IF had THEN CacheItem(qr.cache, cacheKey).data
                                  ELSE NoResult,
                    result |-> got.data,
                    prevCallAt |-> qr.lastCallAt[qrCode],
                    requestsBefore |-> qr.requests]], "generate")

\* fetch resolved with an ok response: addToCache(cacheKey, result); return
QR_Resolved(i) ==
  LET call == qr.calls[i]
      result == QRResult(call.qrCode, qr.now)
  IN QR_Step([qr EXCEPT
       !.cache = addToCache(@, call.cacheKey, result, qr.now),
       !.calls = RemoveAt(@, i),
       !.last = [NoLast EXCEPT !.pair = call.qrCode, !.result = result]], "resolved")

\* fetch rejected or the response was not ok: both catch blocks log and rethrow
QR_Failed(i) ==
  QR_Step([qr EXCEPT
    !.errorLog = EH_handleQRError(EH_handleQRError(@)),
    !.calls = RemoveAt(@, i),
    !.last = NoLast], "failed")

QR_Tick ==
  /\ qr.ticks < QRMaxTicks
  /\ QR_Step([qr EXCEPT !.now = @ + QRTickMs, !.ticks = @ + 1, !.last = NoLast], "tick")

QRNext ==
  \/ \E qrCode \in QRPairs : QR_Generate(qrCode)
  \/ \E i \in 1..Len(qr.calls) : QR_Resolved(i)
  \/ \E i \in 1..Len(qr.calls) : QR_Failed(i)
  \/ QR_Tick

QRSpec == QRInit /\ [][QRNext]_vars

\* C20: the QR cache never holds more than cacheMaxSize (100) entries: when
\* the insert after a generation finds the cache at capacity, the expired
\* entries are removed and, if it is still at capacity, the 20 oldest of the
\* rest (a fifth of the capacity; entries of one age in insertion order) are
\* removed too, and then the new entry is stored.
C20_CacheBounded ==
  [][/\ Len(qr'.cache) <= cacheMaxSize
     /\ (qr'.lastOp = "resolved" /\ Len(qr.cache) >= cacheMaxSize) =>
          LET old == qr.cache
              live == {i \in 1..Len(old) : qr'.now - old[i].timestamp <= cacheTimeout}
              Older(i) == {j \in live : \/ old[j].timestamp < old[i].timestamp
                                        \/ old[j].timestamp = old[i].timestamp /\ j < i}
              kept == IF Cardinality(live) >= cacheMaxSize
                      THEN {i \in live : Cardinality(Older(i)) >= cacheMaxSize \div 5}
                      ELSE live
              newKey == getCacheKey(qr'.last.pair)
          IN /\ CacheKeys(qr'.cache)
                  = {old[i].key : i \in kept} \cup {newKey}
             /\ \A i \in kept : old[i].key # newKey =>
                  \E k \in 1..Len(qr'.cache) : qr'.cache[k] = old[i]
             /\ \E k \in 1..Len(qr'.cache) :
                  /\ qr'.cache[k].key = newKey
                  /\ qr'.cache[k].timestamp = qr'.now
                  /\ qr'.cache[k].data = qr'.last.result]_vars

\* a result stored into a full cache with nothing expired: the first 20
\* entries are gone and the new one is the 81st
C20_Witness ==
  /\ qr.lastOp = "resolved"
  /\ Len(qr.cache) = cacheMaxSize - (cacheMaxSize \div 5) + 1
  /\ qr.cache[1] = FullCache[(cacheMaxSize \div 5) + 1]
  /\ qr.cache[Len(qr.cache)].timestamp = qr.now

-----------------------------------------------------------------------------
(* /api/qr-code (pages/api/qr-code.js): one request through the handler.   *)
(* api holds the request, the handler's position, the response and the     *)
(* number of calls made to the qrcode encoder.                             *)

MAX_URL_LENGTH == 2048
MinWidth == 64
MaxWidth == 2048

QR_CONFIG == [errorCorrectionLevel |-> "H", type |-> "image/png", width |-> 512]

\* /^https?:\/\/.+/i . test(str)
URL_PATTERN(str) ==
  LET lower(c) == IF c >= 65 /\ c <= 90 THEN c + 32 ELSE c
      s == IF Len(str) >= 5 /\ lower(str[5]) = 115 THEN 1 ELSE 0
  IN /\ Len(str) >= 8 + s
     /\ <<lower(str[1]), lower(str[2]), lower(str[3]), lower(str[4])>>
          = <<104, 116, 116, 112>>
     /\ <<str[5 + s], str[6 + s], str[7 + s]>> = <<58, 47, 47>>

\* str.startsWith('http')
StartsWithHttp(str) == Len(str) >= 4 /\ SubSeq(str, 1, 4) = <<104, 116, 116, 112>>

NoSetting == [given |-> FALSE, value |-> 0]
Setting(v) == [given |-> TRUE, value |-> v]
NoLevel == [given |-> FALSE, value |-> ""]
NoBody == [error |-> "", range |-> ""]

\* String.prototype.toUpperCase on the error levels requested
toUpperCase(s) ==
  CASE s = "l" -> "L" [] s = "m" -> "M" [] s = "q" -> "Q" [] s = "h" -> "H"
    [] OTHER -> s

\* customConfig of a GET request (query strings) or a POST request (body.config)
customConfig(req) ==
  IF req.method = "GET"
  THEN [width |-> IF req.size.given THEN req.size ELSE NoSetting,
        type |-> IF req.format.given
                 THEN Setting(IF req.format.value = "svg" THEN "svg" ELSE "image/png")
                 ELSE NoLevel,
        errorCorrectionLevel |->
          IF req.errorLevel.given /\ req.errorLevel.value # ""
          THEN Setting(toUpperCase(req.errorLevel.value)) ELSE NoLevel]
  ELSE [width |-> req.size, type |-> req.format, errorCorrectionLevel |-> req.errorLevel]

\* { ...QR_CONFIG, ...customConfig }
mergeConfig(custom) ==
  [width |-> IF custom.width.given THEN custom.width.value ELSE QR_CONFIG.width,
   type |-> IF custom.type.given THEN custom.type.value ELSE QR_CONFIG.type,
   errorCorrectionLevel |-> IF custom.errorCorrectionLevel.given
                            THEN custom.errorCorrectionLevel.value
                            ELSE QR_CONFIG.errorCorrectionLevel]

\* the length check, one character too lenient
DataTooLong_offByOne(qrData) == Len(qrData) > MAX_URL_LENGTH + 1

\* qrData.length > MAX_URL_LENGTH
DataTooLong(qrData) == Len(qrData) > MAX_URL_LENGTH

Respond(a, status, body) == [a EXCEPT !.pc = "done", !.status = status, !.body = body]

\* handler, from its entry to its first return or to the await of the encoder
handler(a) ==
  LET req == a.req
      qrData == req.data
      config == mergeConfig(customConfig(req))
  IN IF req.method = "OPTIONS" THEN Respond(a, 200, NoBody)
     ELSE IF req.method \notin {"GET", "POST"}
       THEN Respond(a, 405, [error |-> "Method not allowed", range |-> ""])
     ELSE IF qrData = <<>>
       THEN Respond(a, 400, [error |-> "Missing required parameter: data or url",
                             range |-> ""])
     ELSE IF StartsWithHttp(qrData) /\ ~URL_PATTERN(qrData)
       THEN Respond(a, 400, [error |-> "Invalid URL format", range |-> ""])
     ELSE IF DataTooLong(qrData)
       THEN Respond(a, 400, [error |-> "Data too long", range |-> ""])
     ELSE IF config.width # 0 /\ (config.width < MinWidth \/ config.width > MaxWidth)
       THEN Respond(a, 400, [error |-> "Invalid size", range |-> "64-2048 pixels"])
     ELSE IF config.errorCorrectionLevel # ""
             /\ config.errorCorrectionLevel \notin {"L", "M", "Q", "H"}
       THEN Respond(a, 400, [error |-> "Invalid error correction level", range |-> ""])
     ELSE [a EXCEPT !.pc = "encoding", !.config = config,
                    !.encoderCalls = @ + 1]

\* the encoder has settled: send the image, or the catch block
handlerSettled(a, outcome) ==
  CASE outcome = "ok" -> Respond(a, 200, NoBody)
    [] outcome = "Input too long" ->
         Respond(a, 400, [error |-> "Data too long for QR code", range |-> ""])
    [] outcome = "Invalid" ->
         Respond(a, 400, [error |-> "Invalid QR code data", range |-> ""])
    [] OTHER -> Respond(a, 500, [error |-> "QR code generation failed", range |-> ""])

\* 'a' repeated n times after a prefix
Padded(prefix, n) == [i \in 1..n |-> IF i <= Len(prefix) THEN prefix[i] ELSE 97]

HttpsX == <<104, 116, 116, 112, 115, 58, 47, 47, 120>>   \* "https://x"
HttpBad == <<104, 116, 116, 112, 58, 47, 120>>           \* "http:/x"

ApiContents ==
  {<<>>, HttpsX, HttpBad, <<104, 105>>,
   Padded(<<>>, MAX_URL_LENGTH), Padded(<<>>, MAX_URL_LENGTH + 1),
   Padded(HttpsX, MAX_URL_LENGTH), Padded(HttpsX, MAX_URL_LENGTH + 1),
   Padded(HttpBad, MAX_URL_LENGTH + 1)}

ApiSizes ==
  {NoSetting} \cup {Setting(v) : v \in {0 - 5, 0, 1, MinWidth - 1, MinWidth, QR_CONFIG.width,
                                         MaxWidth, MaxWidth + 1}}

ApiRequests ==
  [method : {"GET", "POST", "PUT", "OPTIONS"}, data : ApiContents, size : ApiSizes,
   format : {NoLevel, Setting("svg")},
   errorLevel : {NoLevel, Setting("h"), Setting("X")}]

APIInit ==
  /\ ARInit
  /\ sm = "unused"
  /\ cu = "unused"
  /\ qr = "unused"
  /\ mo = "unused"
  /\ ss = "unused"
  /\ pm = "unused"
  /\ am = "unused"
  /\ eh = "unused"
  /\ \E req \in ApiRequests :
       api = [req |-> req, pc |-> "received", status |-> 0, body |-> NoBody,
              config |-> QR_CONFIG, encoderCalls |-> 0]

API_Handle ==
  /\ api.pc = "received"
  /\ api' = handler(api)
  /\ UNCHANGED <<arVars, sm, cu, qr, mo, eh, ss, pm, am>>

API_Encoded(outcome) ==
  /\ api.pc = "encoding"
  /\ api' = handlerSettled(api, outcome)
  /\ UNCHANGED <<arVars, sm, cu, qr, mo, eh, ss, pm, am>>

APINext ==
  \/ API_Handle
  \/ \E outcome \in {"ok", "Input too long", "Invalid", "other"} : API_Encoded(outcome)

APISpec == APIInit /\ [][APINext]_vars

\* the request carries data that passes the checks made before the size check
ApiDataAccepted ==
  /\ api.req.method \in {"GET", "POST"}
  /\ api.req.data # <<>>
  /\ ~(StartsWithHttp(api.req.data) /\ ~URL_PATTERN(api.req.data))
  /\ ~DataTooLong(api.req.data)

\* C11: a GET or POST request whose requested size is below 64 or above 2048
\* is answered with status 400 and a body naming the range 64-2048, and the
\* encoder is not invoked for it.
C11_SizeOutOfRangeRejected ==
  (/\ api.pc # "received"
   /\ ApiDataAccepted
   /\ api.req.size.given
   /\ (api.req.size.value < MinWidth \/ api.req.size.value > MaxWidth))
    => /\ api.pc = "done"
       /\ api.status = 400
       /\ api.body = [error |-> "Invalid size", range |-> "64-2048 pixels"]
       /\ api.encoderCalls = 0

\* size 0 has passed the size check and the encoder was called with width 0
C11_Witness ==
  /\ api.pc = "encoding" /\ api.encoderCalls = 1
  /\ api.req.size = Setting(0) /\ api.config.width = 0

\* C12: a GET or POST request whose content is longer than 2048 characters is
\* answered with status 400, and for no request with such content is the
\* encoder called.
C12_LongContentRejected ==
  (api.pc # "received" /\ Len(api.req.data) > MAX_URL_LENGTH)
    => /\ api.encoderCalls = 0
       /\ api.pc = "done"
       /\ api.req.method \in {"GET", "POST"} => api.status = 400

\* content of 2049 characters rejected by the length check
C12_Witness ==
  /\ api.pc = "done" /\ api.status = 400 /\ api.body.error = "Data too long"
  /\ Len(api.req.data) = MAX_URL_LENGTH + 1 /\ api.encoderCalls = 0

\* the constraints a response body names as violated
ApiReported(body) ==
  CASE body.error = "Invalid size" -> {"size"}
    [] body.error = "Invalid error correction level" -> {"errorCorrectionLevel"}
    [] body.error \in {"Data too long", "Data too long for QR code"} -> {"length"}
    [] body.error = "Missing required parameter: data or url" -> {"content"}
    [] body.error = "Invalid URL format" -> {"url"}
    [] OTHER -> {}

\* the constraints on size and error-correction level a request violates
ApiViolated(req) ==
  LET config == mergeConfig(customConfig(req))
  IN (IF config.width < MinWidth \/ config.width > MaxWidth THEN {"size"} ELSE {})
     \cup (IF config.errorCorrectionLevel \notin {"L", "M", "Q", "H"}
           THEN {"errorCorrectionLevel"} ELSE {})

\* C21: a request that violates several constraints at once (a size out of
\* range together with an invalid error-correction level) is answered with a
\* failure that names all the violated constraints, not only the first.
C21_AllViolationsReported ==
  (/\ api.pc # "received"
   /\ ApiDataAccepted
   /\ Cardinality(ApiViolated(api.req)) > 1)
    => /\ api.pc = "done"
       /\ api.status = 400
       /\ ApiViolated(api.req) \subseteq ApiReported(api.body)

\* size 2049 with level "X": the response names the size only
C21_Witness ==
  /\ api.pc = "done" /\ api.status = 400
  /\ api.req.size = Setting(MaxWidth + 1) /\ api.req.errorLevel = Setting("X")
  /\ ApiReported(api.body) = {"size"}

-----------------------------------------------------------------------------
(* MessageOverlay (src/components/MessageOverlay.js), mounted by ARScene   *)
(* with autoHide = false. mo holds the isVisible prop, displayState, the   *)
(* display style set on the overlay element, the animation timer          *)
(* (animationRef) a suspended showMessage / hideMessage waits for, and     *)
(* whether the visibility effect is still to run for the last render.      *)

MOMaxEvents == 6       \* marker callbacks explored

\* showMessage up to its await of the enter animation
MO_showMessage(m) ==
  IF m.displayState.animating \/ m.displayState.visible THEN m
  ELSE [m EXCEPT !.displayState = [visible |-> TRUE, animating |-> TRUE,
                                   animationPhase |-> "entering"],
                 !.showCount = @ + 1, !.display = "block", !.animation = "enter"]

\* hideMessage up to its await of the exit animation
MO_hideMessage(m) ==
  IF m.displayState.animating \/ ~m.displayState.visible THEN m
  ELSE [m EXCEPT !.displayState.animating = TRUE,
                 !.displayState.animationPhase = "exiting", !.animation = "exit"]

\* useEffect(..., [isVisible, displayState.visible])
MO_visibilityEffect(m) ==
  IF m.isVisible /\ ~m.displayState.visible THEN MO_showMessage(m)
  ELSE IF ~m.isVisible /\ m.displayState.visible THEN MO_hideMessage(m)
  ELSE m

\* the rest of showMessage / hideMessage once the animation timer has fired
MO_afterAnimation(m) ==
  IF m.animation = "enter"
  THEN [m EXCEPT !.displayState.animating = FALSE,
                 !.displayState.animationPhase = "visible", !.animation = "none"]
  ELSE [m EXCEPT !.display = "none",
                 !.displayState = [visible |-> FALSE, animating |-> FALSE,
                                   animationPhase |-> "idle"],
                 !.animation = "none"]

MO_Step(m, op) ==
  /\ mo' = [m EXCEPT !.lastOp = op,
                     !.effectDue = \/ m.isVisible # mo.isVisible
                                   \/ m.displayState.visible # mo.displayState.visible]
  /\ UNCHANGED <<arVars, sm, cu, qr, api, eh, ss, pm, am>>

\* the first render: displayState.visible = isVisible, style display 'none'
MOInit ==
  /\ ARInit
  /\ sm = "unused"
  /\ cu = "unused"
  /\ qr = "unused"
  /\ api = "unused"
  /\ eh = "unused"
  /\ ss = "unused"
  /\ pm = "unused"
  /\ am = "unused"
  /\ \E isVisible \in BOOLEAN :
       mo = [isVisible |-> isVisible,
             displayState |-> [visible |-> isVisible, animating |-> FALSE,
                               animationPhase |-> "idle"],
             display |-> "none", animation |-> "none", effectDue |-> TRUE,
             showCount |-> 0, events |-> 0, lastOp |-> "mount"]

\* onTargetFound / onTargetLost: ARScene renders the overlay with a new isVisible
MO_MarkerEvent(visible) ==
  /\ ~mo.effectDue
  /\ mo.events < MOMaxEvents
  /\ mo.isVisible # visible
  /\ MO_Step([mo EXCEPT !.isVisible = visible, !.events = @ + 1],
             IF visible THEN "markerFound" ELSE "markerLost")

\* the passive effects of the last render run
MO_Effect ==
  /\ mo.effectDue
  /\ MO_Step(MO_visibilityEffect(mo), "effect")

\* the animation timer fires
MO_AnimationDone ==
  /\ ~mo.effectDue
  /\ mo.animation # "none"
  /\ MO_Step(MO_afterAnimation(mo), "animationDone")

MONext ==
  \/ \E visible \in BOOLEAN : MO_MarkerEvent(visible)
  \/ MO_Effect
  \/ MO_AnimationDone

MOSpec == MOInit /\ [][MONext]_vars

\* nothing is left to run: no effect is due and no animation is in progress
MO_Settled == ~mo.effectDue /\ mo.animation = "none"

\* C13: after a marker-found or marker-lost callback, once the animations
\* have finished, the overlay is displayed exactly when the marker is visible,
\* including when the callback arrived during an enter or exit animation.
C13_OverlayFollowsMarker ==
  (mo.events > 0 /\ MO_Settled) => (mo.display = "block" <=> mo.isVisible)

\* the marker was lost during the enter animation and the overlay stayed
C13_Witness ==
  /\ MO_Settled /\ mo.events > 0
  /\ ~mo.isVisible /\ mo.display = "block" /\ mo.displayState.visible

-----------------------------------------------------------------------------
(* SessionManager: claims on tracking, the inactivity timer, persistence   *)
(* failures and listeners.                                                 *)

\* C27: after every trackInteraction call the snapshot in local storage
\* reflects the in-memory session as it is at that moment, including the
\* state transition, AR times or error accumulation made by that same call.
C27_SnapshotReflectsSession ==
  (sm.lastOp = "trackInteraction" /\ ~sm.storageFails)
    => /\ sm.storage.present
       /\ sm.storage.lastSaved = sm.now
       /\ sm.storage.interactions = Last(sm.interactions, StoredInteractions)
       /\ sm.storage.sessionState = sm.sessionState
       /\ sm.storage.sessionData = sm.sessionData

\* ar_start tracked: the session is ar_active, the snapshot written by the
\* same call says active and has no arStartTime
C27_Witness ==
  /\ sm.lastOp = "trackInteraction"
  /\ sm.interactions[Len(sm.interactions)].type = "ar_start"
  /\ sm.sessionState = "ar_active" /\ sm.sessionData.arStartTime = sm.now
  /\ sm.storage.present /\ sm.storage.lastSaved = sm.now
  /\ sm.storage.sessionState = "active" /\ sm.storage.sessionData.arStartTime = Absent

\* C28: tracking ar_start sets the session state to ar_active; tracking
\* ar_end sets it to active when it is ar_active and leaves it unchanged
\* otherwise; tracking any other type, error_occurred included, leaves it
\* unchanged.
C28_StateTransitions ==
  [][(/\ sm'.lastOp \in {"trackInteraction", "visibilitychange"}
      /\ Len(sm'.interactions) = Len(sm.interactions) + 1)
       => LET type == sm'.interactions[Len(sm'.interactions)].type
          IN sm'.sessionState =
               CASE type = "ar_start" -> "ar_active"
                 [] type = "ar_end" /\ sm.sessionState = "ar_active" -> "active"
                 [] OTHER -> sm.sessionState]_vars

\* ar_end tracked on a completed session: still completed
C28_Witness ==
  /\ sm.lastOp = "trackInteraction"
  /\ sm.interactions[Len(sm.interactions)].type = "ar_end"
  /\ sm.sessionState = "completed"

\* C31: once endSession has left the session completed, no later call or
\* event appends an interaction, changes the session state, arms an
\* inactivity timer or emits sessionEnd again.
C31_CompletedAbsorbing ==
  [][(sm.sessionState = "completed" /\ sm'.lastOp # "tick")
       => /\ Len(sm'.interactions) <= Len(sm.interactions)
          /\ sm'.sessionState = "completed"
          /\ sm'.timers \subseteq sm.timers
          /\ \A i \in 1..Len(sm'.emitted) : sm'.emitted[i].event # "sessionEnd"]_vars

\* ar_start tracked after endSession: a record is appended, the session is
\* ar_active again and an inactivity timer is armed
C31_Witness ==
  /\ sm.lastOp = "trackInteraction"
  /\ sm.sessionData.endTime # Absent
  /\ sm.interactions[Len(sm.interactions)].type = "ar_start"
  /\ sm.sessionState = "ar_active"
  /\ sm.timers # {}

\* C38: every interaction the SessionManager holds, counts in its statistics
\* and returns in its export carries the sessionId of the current session.
C38_InteractionsOfCurrentSession ==
  LET exported == SM_exportSessionData(sm).interactions
  IN \A i \in 1..Len(exported) : exported[i].sessionId = sm.sessionId

\* the constructor adopted the interaction of an earlier session's snapshot:
\* it is exported and counted with the page_visit of the current session
C38_Witness ==
  /\ sm.lastOp = "initialize"
  /\ SM_getSessionStats(sm).interactionCount = 2
  /\ sm.interactions[1].sessionId = "prev"
  /\ sm.interactions[2].sessionId = sm.sessionId

\* C14: every trackInteraction call on a session that is not inactive appends
\* exactly one new record after the records already held and sets
\* lastActivityTime to the time of the call, whatever the previous call was;
\* so two consecutive calls with identical arguments append two records.
C14_EveryTrackAppends ==
  [][(sm'.lastOp = "trackInteraction" /\ sm'.tracked = sm.tracked + 1
      /\ sm.sessionState # "inactive")
       => /\ Len(sm'.interactions) = Len(sm.interactions) + 1
          /\ SubSeq(sm'.interactions, 1, Len(sm.interactions)) = sm.interactions
          /\ sm'.interactions[Len(sm'.interactions)].id = sm.nextId
          /\ sm'.lastActivityTime = sm'.now]_vars

\* two consecutive calls of the same type, the second at a later time
C14_Witness ==
  LET n == Len(sm.interactions)
  IN /\ sm.lastOp = "trackInteraction" /\ sm.tracked = 2 /\ n >= 2
     /\ sm.interactions[n].type = sm.interactions[n - 1].type
     /\ sm.interactions[n].id = sm.interactions[n - 1].id + 1
     /\ sm.lastActivityTime = sm.now /\ sm.now > sm.startTime

\* C15: at every moment at most one inactivity timer is pending, and right
\* after the session is started or an interaction is tracked the pending timer
\* is the one in timeoutId, due 30 minutes after that call.
C15_OneTimerThirtyMinutes ==
  /\ Cardinality(sm.timers) <= 1
  /\ sm.lastOp \in {"initialize", "trackInteraction", "visibilitychange"}
       => sm.timers = {[id |-> sm.timeoutId, deadline |-> sm.now + sessionTimeout]}

\* an interaction tracked after the clock advanced: the earlier timer was
\* replaced by one due 30 minutes after the call
C15_Witness ==
  /\ sm.lastOp = "trackInteraction" /\ sm.now > sm.startTime
  /\ sm.timers = {[id |-> sm.timeoutId, deadline |-> sm.now + sessionTimeout]}

-----------------------------------------------------------------------------
(* The ErrorHandler object next to the SessionManager object: eh holds     *)
(* errorLog, listeners and what the last handleError call delivered to     *)
(* them. Listener 2 throws whenever it is called.                          *)

EHMaxErrors == 2       \* handleError calls explored

\* messages: "Permission denied"; "camera busy"; "fetch failed"; "network down"; "bad input"
ErrorMessages ==
  {<<80, 101, 114, 109, 105, 115, 115, 105, 111, 110, 32, 100, 101, 110, 105, 101, 100>>,
   <<99, 97, 109, 101, 114, 97, 32, 98, 117, 115, 121>>,
   <<102, 101, 116, 99, 104, 32, 102, 97, 105, 108, 101, 100>>,
   <<110, 101, 116, 119, 111, 114, 107, 32, 100, 111, 119, 110>>,
   <<98, 97, 100, 32, 105, 110, 112, 117, 116>>}

HandledErrors ==
  {[message |-> text] : text \in ErrorMessages} \cup {ARError("QR_ERROR", "MEDIUM")}

ListenerLists == {<<1, 2>>, <<2, 1>>}
ThrowingListeners == {2}

\* the listeners called before an uncaught exception would end the forEach
UpToThrow(listeners) ==
  LET throwing == {i \in 1..Len(listeners) : listeners[i] \in ThrowingListeners}
  IN IF throwing = {} THEN listeners ELSE SubSeq(listeners, 1, SetMin(throwing))

\* notifyListeners without the try / catch around each listener
EH_notifyListeners_uncaught(e, processedError) ==
  [e EXCEPT !.emitted = [i \in 1..Len(UpToThrow(e.listeners)) |->
                           [listener |-> e.listeners[i], id |-> processedError.id]],
            !.thrown = UpToThrow(e.listeners) # e.listeners]

EH_notifyListeners(e, processedError) ==
  [e EXCEPT !.emitted = [i \in 1..Len(e.listeners) |->
                           [listener |-> e.listeners[i], id |-> processedError.id]]]

\* handleError of the object: processError (with a fresh id), logError, notify
EH_handle(e, error) ==
  LET p == EH_processError(error)
      processedError == [id |-> e.handled + 1, type |-> p.type, severity |-> p.severity]
  IN EH_notifyListeners([e EXCEPT !.errorLog = EH_logError(@, processedError),
                                  !.handled = @ + 1, !.last = error],
                        processedError)

\* new ErrorHandler(), then addListener for each listener
EH_new(listeners) ==
  [errorLog |-> <<>>, listeners |-> listeners, emitted |-> <<>>, thrown |-> FALSE,
   handled |-> 0, last |-> ARError("", ""), lastOp |-> "new"]

EH_HandleError(error, max) ==
  /\ eh.handled < max
  /\ eh' = [EH_handle(eh, error) EXCEPT !.lastOp = "handleError"]
  /\ UNCHANGED <<arVars, sm, cu, qr, api, mo, ss, pm, am>>

\* both singletons of a page, with listeners registered; localStorage may be
\* failing
FanOutInit ==
  /\ ARInit
  /\ cu = "unused"
  /\ qr = "unused"
  /\ api = "unused"
  /\ mo = "unused"
  /\ ss = "unused"
  /\ pm = "unused"
  /\ am = "unused"
  /\ \E fails \in BOOLEAN, ls \in ListenerLists :
       sm = [SM_initialize([SM_constructor(StartNow, NoItem)
                              EXCEPT !.storageFails = fails])
               EXCEPT !.listeners = ls, !.lastOp = "initialize"]
  /\ \E ls \in ListenerLists : eh = EH_new(ls)

FanOutNext ==
  \/ \E type \in TrackTypes : sm.tracked < MaxTracked /\ SM_Track(type)
  \/ sm.lastOp # "endSession" /\ SM_End
  \/ \E error \in HandledErrors : EH_HandleError(error, EHMaxErrors)

FanOutSpec == FanOutInit /\ [][FanOutNext]_vars

\* the events delivered to every registered listener, in registration order
SM_Delivered(event) ==
  [i \in 1..Len(sm.listeners) |-> [listener |-> sm.listeners[i], event |-> event]]

\* C16: when writing the snapshot to local storage throws, startSession,
\* trackInteraction and endSession return without throwing, and the interaction
\* is appended, the state updated and every listener notified all the same.
C16_SaveFailureContained ==
  sm.storageFails =>
    /\ ~sm.thrown
    /\ ~sm.storage.present
    /\ sm.lastOp = "initialize" =>
         /\ sm.sessionState = "active"
         /\ Len(sm.interactions) = 1 /\ sm.interactions[1].type = "page_visit"
         /\ sm.timers = {[id |-> sm.timeoutId, deadline |-> sm.now + sessionTimeout]}
    /\ sm.lastOp = "trackInteraction" =>
         /\ Len(sm.interactions) = sm.tracked + 1
         /\ sm.interactions[Len(sm.interactions)].id = sm.nextId - 1
         /\ sm.lastActivityTime = sm.now
         /\ sm.emitted = SM_Delivered("interaction")
    /\ sm.lastOp = "endSession" =>
         /\ sm.sessionState = "completed"
         /\ sm.sessionData.interactionCount = Len(sm.interactions)
         /\ sm.emitted = SM_Delivered("sessionEnd")

\* an interaction tracked, then the session ended, while every write fails
C16_Witness ==
  /\ sm.storageFails /\ sm.lastOp = "endSession" /\ sm.tracked > 0
  /\ sm.sessionState = "completed" /\ Len(sm.emitted) = Len(sm.listeners)

\* C17: when a registered listener throws, every other listener is still
\* called for the event, the error or interaction is in the log or list, and
\* no exception leaves handleError or trackInteraction.
C17_ListenerFailureContained ==
  /\ eh.lastOp = "handleError" =>
       /\ ~eh.thrown
       /\ eh.errorLog[Len(eh.errorLog)].id = eh.handled
       /\ eh.emitted = [i \in 1..Len(eh.listeners) |->
                          [listener |-> eh.listeners[i], id |-> eh.handled]]
  /\ sm.lastOp = "trackInteraction" =>
       /\ ~sm.thrown
       /\ sm.interactions[Len(sm.interactions)].id = sm.nextId - 1
       /\ sm.emitted = SM_Delivered("interaction")

\* the throwing listener is registered first in both objects
C17_Witness ==
  /\ eh.lastOp = "handleError" /\ eh.listeners = <<2, 1>> /\ Len(eh.emitted) = 2
  /\ sm.lastOp = "trackInteraction" /\ sm.listeners = <<2, 1>> /\ Len(sm.emitted) = 2

\* the severity the claim assigns to a taxonomy
SeverityOfType(type) ==
  CASE type = "PERMISSION_ERROR" -> "CRITICAL"
    [] type \in {"CAMERA_ERROR", "AR_ERROR"} -> "HIGH"
    [] type = "NETWORK_ERROR" -> "MEDIUM"
    [] OTHER -> "LOW"

\* C19: for an error whose type and severity are inferred from its message,
\* the severity is critical for permission, high for camera and AR, medium
\* for network and low for every other type.
C19_SeverityFollowsType ==
  (eh.lastOp = "handleError" /\ "message" \in DOMAIN eh.last)
    => LET e == eh.errorLog[Len(eh.errorLog)]
       IN e.severity = SeverityOfType(e.type)

\* "Permission denied": type PERMISSION_ERROR with severity HIGH
C19_Witness ==
  /\ eh.lastOp = "handleError" /\ "message" \in DOMAIN eh.last
  /\ eh.errorLog[Len(eh.errorLog)].type = "PERMISSION_ERROR"
  /\ eh.errorLog[Len(eh.errorLog)].severity = "HIGH"

-----------------------------------------------------------------------------
(* A long run of handleError calls on one ErrorHandler, past maxLogSize.   *)

EHMaxBurst == 102      \* handleError calls in a run

EHCapInit ==
  /\ ARInit
  /\ sm = "unused"
  /\ cu = "unused"
  /\ qr = "unused"
  /\ api = "unused"
  /\ mo = "unused"
  /\ ss = "unused"
  /\ pm = "unused"
  /\ am = "unused"
  /\ \E ls \in ListenerLists : eh = EH_new(ls)

EHCapNext == EH_HandleError(ARError("QR_ERROR", "MEDIUM"), EHMaxBurst)

EHCapSpec == EHCapInit /\ [][EHCapNext]_vars

\* C18: after any sequence of handleError calls the error log holds at most
\* 100 entries, and they are exactly the most recently handled errors in
\* arrival order (records carry their arrival number as id).
C18_LogHoldsMostRecent ==
  LET n == Len(eh.errorLog)
  IN /\ n <= maxLogSize
     /\ n = IF eh.handled < maxLogSize THEN eh.handled ELSE maxLogSize
     /\ \A i \in 1..n : eh.errorLog[i].id = eh.handled - n + i

\* two errors past the limit: the first two records are gone
C18_Witness ==
  /\ eh.handled = maxLogSize + 2
  /\ Len(eh.errorLog) = maxLogSize
  /\ eh.errorLog[1].id = 3

-----------------------------------------------------------------------------
(* /api/session (src/unnamed/part_008): the module's two Maps, sessions    *)
(* and interactions, as sequences in insertion order, the server clock,    *)
(* the cleanup interval timer and the response to the last request. A      *)
(* request is handled in one step: the handlers await nothing that yields  *)
(* to another request.                                                     *)

SESSION_CONFIG ==
  [maxSessions |-> 1000, sessionTimeout |-> 30 * 60 * 1000,
   maxInteractionsPerSession |-> 100, cleanupInterval |-> 5 * 60 * 1000]

VALID_INTERACTION_TYPES ==
  {"page_visit", "qr_scan", "ar_start", "ar_message_view", "ar_end",
   "camera_permission", "error_occurred"}

VALID_SESSION_STATES == {"inactive", "active", "ar_active", "completed", "error"}

SSMaxRequests == 2     \* requests handled in a run
SSMaxTicks == 3        \* advances of the server clock
SSMinute == 60 * 1000
SSStartNow == 25 * SSMinute   \* server time at the start of a run

\* Map operations on entries keyed by sessionId
SS_has(map, sessionId) == \E i \in 1..Len(map) : map[i].sessionId = sessionId
SS_get(map, sessionId) == map[CHOOSE i \in 1..Len(map) : map[i].sessionId = sessionId]
SS_set(map, entry) ==
  IF SS_has(map, entry.sessionId)
  THEN [i \in 1..Len(map) |-> IF map[i].sessionId = entry.sessionId THEN entry ELSE map[i]]
  ELSE Append(map, entry)
SS_delete(map, ids) ==
  LET keep(e) == e.sessionId \notin ids IN SelectSeq(map, keep)

\* the sessionIds of the first k entries of sessions sorted by lastActivity
\* (Array.prototype.sort is stable)
RECURSIVE SS_oldest(_, _)
SS_oldest(sessions, k) ==
  IF k <= 0 \/ sessions = <<>> THEN {}
  ELSE LET least == SetMin({sessions[i].lastActivity : i \in 1..Len(sessions)})
           first == CHOOSE i \in 1..Len(sessions) :
                      /\ sessions[i].lastActivity = least
                      /\ \A j \in 1..(i - 1) : sessions[j].lastActivity # least
           id == sessions[first].sessionId
       IN {id} \cup SS_oldest(SS_delete(sessions, {id}), k - 1)

\* cleanupOldSessions()
cleanupOldSessions(s) ==
  LET cutoff == s.now - SESSION_CONFIG.sessionTimeout
      expired == {s.sessions[i].sessionId : i \in {j \in 1..Len(s.sessions) :
                                                     s.sessions[j].lastActivity < cutoff}}
      sessions1 == SS_delete(s.sessions, expired)
      interactions1 == SS_delete(s.interactions, expired)
      toDelete == IF Len(sessions1) > SESSION_CONFIG.maxSessions
                  THEN SS_oldest(sessions1, Len(sessions1) - SESSION_CONFIG.maxSessions)
                  ELSE {}
  IN [s EXCEPT !.sessions = SS_delete(sessions1, toDelete),
               !.interactions = SS_delete(interactions1, toDelete)]

\* addInteractionToSession that never drops an interaction
addInteractionToSession_noLimit(s, sessionId, type) ==
  LET interaction == [id |-> s.nextInteraction, type |-> type, timestamp |-> s.now]
      before == IF SS_has(s.interactions, sessionId)
                THEN SS_get(s.interactions, sessionId).list ELSE <<>>
      s1 == [s EXCEPT !.interactions =
                        SS_set(@, [sessionId |-> sessionId,
                                   list |-> Append(before, interaction)]),
                      !.nextInteraction = @ + 1]
  IN IF SS_has(s1.sessions, sessionId)
     THEN [s1 EXCEPT !.sessions =
             SS_set(@, [SS_get(s1.sessions, sessionId) EXCEPT !.lastActivity = s.now])]
     ELSE s1

\* addInteractionToSession(sessionId, interactionData)
addInteractionToSession(s, sessionId, type) ==
  LET interaction == [id |-> s.nextInteraction, type |-> type, timestamp |-> s.now]
      before == IF SS_has(s.interactions, sessionId)
                THEN SS_get(s.interactions, sessionId).list ELSE <<>>
      pushed == Append(before, interaction)
      sessionInteractions ==
        IF Len(pushed) > SESSION_CONFIG.maxInteractionsPerSession
        THEN Last(pushed, SESSION_CONFIG.maxInteractionsPerSession) ELSE pushed
      s1 == [s EXCEPT !.interactions =
                        SS_set(@, [sessionId |-> sessionId, list |-> sessionInteractions]),
                      !.nextInteraction = @ + 1]
  IN IF SS_has(s1.sessions, sessionId)
     THEN [s1 EXCEPT !.sessions =
             SS_set(@, [SS_get(s1.sessions, sessionId) EXCEPT !.lastActivity = s.now])]
     ELSE s1

\* the response sent and what the handler saw of the session it was asked for
SS_respond(s, op, sessionId, status) ==
  [s EXCEPT !.last = [op |-> op, sessionId |-> sessionId, status |-> status,
                      idle |-> IF SS_has(s.sessions, sessionId)
                               THEN s.now - SS_get(s.sessions, sessionId).lastActivity
                               ELSE Absent]]

\* handleCreateSession: ...sessionData is spread over the generated fields,
\* so it may carry its own lastActivity, sessionId and state (0 and "": not
\* given). In a stored entry sessionId is the Map key and ownSessionId the
\* record's sessionId.
handleCreateSession(s, sessionData, initialInteraction) ==
  LET sessionId == s.nextSession
      session == [sessionId |-> sessionId,
                  ownSessionId |-> IF sessionData.sessionId # 0
                                   THEN sessionData.sessionId ELSE sessionId,
                  state |-> IF sessionData.state # ""
                            THEN sessionData.state ELSE "active",
                  lastActivity |-> IF sessionData.given THEN sessionData.value ELSE s.now]
      s1 == [s EXCEPT !.sessions = SS_set(@, session),
                      !.interactions = SS_set(@, [sessionId |-> sessionId, list |-> <<>>]),
                      !.nextSession = @ + 1]
      s2 == IF initialInteraction
            THEN addInteractionToSession(s1, sessionId, "page_visit") ELSE s1
  IN [cleanupOldSessions(s2) EXCEPT
        !.last = [op |-> "create", sessionId |-> sessionId, status |-> 201, idle |-> Absent]]

\* handleGetSession (sessionId 0: no sessionId in the query)
handleGetSession(s, sessionId) ==
  IF sessionId = 0 THEN SS_respond(s, "get", sessionId, 400)
  ELSE IF ~SS_has(s.sessions, sessionId) THEN SS_respond(s, "get", sessionId, 404)
  ELSE SS_respond(s, "get", sessionId, 200)

\* handleDeleteSession
handleDeleteSession(s, sessionId) ==
  IF sessionId = 0 THEN SS_respond(s, "delete", sessionId, 400)
  ELSE [SS_respond(s, "delete", sessionId,
                   IF SS_has(s.sessions, sessionId) THEN 200 ELSE 404)
          EXCEPT !.sessions = SS_delete(@, {sessionId}),
                 !.interactions = SS_delete(@, {sessionId})]

\* handleAddInteraction
handleAddInteraction(s, sessionId, type) ==
  IF type \notin VALID_INTERACTION_TYPES
  THEN SS_respond(s, "add_interaction", sessionId, 400)
  ELSE [addInteractionToSession(s, sessionId, type) EXCEPT
          !.last = SS_respond(s, "add_interaction", sessionId, 200).last]

\* handleUpdateSessionState: { state, ...updateData } = stateData; updateData
\* is spread over the stored record (state "", sessionId 0: not in the data)
handleUpdateSessionState(s, sessionId, stateData) ==
  IF stateData.state # "" /\ stateData.state \notin VALID_SESSION_STATES
  THEN SS_respond(s, "update_state", sessionId, 400)
  ELSE LET session == SS_get(s.sessions, sessionId)
           updatedSession ==
             [session EXCEPT !.ownSessionId = IF stateData.sessionId # 0
                                              THEN stateData.sessionId ELSE @,
                             !.lastActivity = s.now,
                             !.state = IF stateData.state # "" THEN stateData.state ELSE @]
       IN [SS_respond(s, "update_state", sessionId, 200)
             EXCEPT !.sessions = SS_set(@, updatedSession)]

\* handleHeartbeat
handleHeartbeat(s, sessionId) ==
  [SS_respond(s, "heartbeat", sessionId, 200)
     EXCEPT !.sessions = SS_set(@, [SS_get(s.sessions, sessionId)
                                      EXCEPT !.lastActivity = s.now])]

\* handleUpdateSession: body.action with its data
handleUpdateSession(s, sessionId, action, data) ==
  IF sessionId = 0 THEN SS_respond(s, action, sessionId, 400)
  ELSE IF ~SS_has(s.sessions, sessionId) THEN SS_respond(s, action, sessionId, 404)
  ELSE CASE action = "add_interaction" -> handleAddInteraction(s, sessionId, data.type)
         [] action = "update_state" -> handleUpdateSessionState(s, sessionId, data)
         [] action = "heartbeat" -> handleHeartbeat(s, sessionId)
         [] OTHER -> SS_respond(s, action, sessionId, 400)

\* a store filled to maxSessions at server time 0; the last session has
\* maxInteractionsPerSession interactions
SS_FullSessions ==
  [i \in 1..SESSION_CONFIG.maxSessions |->
     [sessionId |-> i, ownSessionId |-> i, state |-> "active", lastActivity |-> 0]]

SS_FullInteractions ==
  [i \in 1..SESSION_CONFIG.maxSessions |->
     [sessionId |-> i,
      list |-> IF i = SESSION_CONFIG.maxSessions
               THEN [k \in 1..SESSION_CONFIG.maxInteractionsPerSession |->
                       [id |-> k, type |-> "page_visit", timestamp |-> 0]]
               ELSE <<>>]]

\* the sessionIds requests name: the last stored session and the first one
\* created in the run
SSIds == {SESSION_CONFIG.maxSessions, SESSION_CONFIG.maxSessions + 1}

\* the data of a PUT body: an interaction type, a state, a sessionId
SSData(type, state, sessionId) == [type |-> type, state |-> state, sessionId |-> sessionId]

SSUpdates ==
  {[action |-> "add_interaction", data |-> SSData("page_visit", "", 0)],
   [action |-> "update_state", data |-> SSData("", "completed", 0)],
   [action |-> "heartbeat", data |-> SSData("", "", 0)]}

\* sessionData of a POST body that sets none of the generated fields
SSNoSessionData == [given |-> FALSE, value |-> 0, sessionId |-> 0, state |-> ""]

SSInit ==
  /\ ARInit
  /\ sm = "unused"
  /\ cu = "unused"
  /\ qr = "unused"
  /\ api = "unused"
  /\ mo = "unused"
  /\ eh = "unused"
  /\ pm = "unused"
  /\ am = "unused"
  /\ \E full \in BOOLEAN :
       ss = [sessions |-> IF full THEN SS_FullSessions ELSE <<>>,
             interactions |-> IF full THEN SS_FullInteractions ELSE <<>>,
             nextSession |-> SESSION_CONFIG.maxSessions + 1,
             nextInteraction |-> SESSION_CONFIG.maxInteractionsPerSession + 1,
             now |-> SSStartNow,
             nextCleanup |-> SSStartNow + SESSION_CONFIG.cleanupInterval,
             ticks |-> 0, requests |-> 0,
             last |-> [op |-> "", sessionId |-> 0, status |-> 0, idle |-> Absent],
             lastOp |-> "load"]

SS_Step(s, op) ==
  /\ ss' = [s EXCEPT !.lastOp = op]
  /\ UNCHANGED <<arVars, sm, cu, qr, api, mo, eh, pm, am>>

\* POST
SS_Post(sessionData, initialInteraction) ==
  /\ ss.requests < SSMaxRequests
  /\ SS_Step([handleCreateSession(ss, sessionData, initialInteraction)
                EXCEPT !.requests = @ + 1], "request")

\* PUT ?sessionId= with body {action, data}
SS_Put(sessionId, update) ==
  /\ ss.requests < SSMaxRequests
  /\ SS_Step([handleUpdateSession(ss, sessionId, update.action, update.data)
                EXCEPT !.requests = @ + 1], "request")

\* GET ?sessionId=
SS_Get(sessionId) ==
  /\ ss.requests < SSMaxRequests
  /\ SS_Step([handleGetSession(ss, sessionId) EXCEPT !.requests = @ + 1], "request")

\* DELETE ?sessionId=
SS_Delete(sessionId) ==
  /\ ss.requests < SSMaxRequests
  /\ SS_Step([handleDeleteSession(ss, sessionId) EXCEPT !.requests = @ + 1], "request")

\* setInterval(cleanupOldSessions, cleanupInterval)
SS_CleanupTimer ==
  /\ ss.now = ss.nextCleanup
  /\ SS_Step([cleanupOldSessions(ss) EXCEPT
                !.nextCleanup = @ + SESSION_CONFIG.cleanupInterval], "cleanup")

\* the clock advances to one minute past a cleanup, or to the next cleanup
SS_Tick ==
  /\ ss.ticks < SSMaxTicks
  /\ ss.now < ss.nextCleanup
  /\ SS_Step([ss EXCEPT !.ticks = @ + 1,
                !.now = IF ss.now % SESSION_CONFIG.cleanupInterval = 0
                        THEN ss.now + SSMinute ELSE ss.nextCleanup], "tick")

SSNext ==
  \/ \E initialInteraction \in BOOLEAN : SS_Post(SSNoSessionData, initialInteraction)
  \/ \E sessionId \in SSIds, update \in SSUpdates : SS_Put(sessionId, update)
  \/ \E sessionId \in SSIds : SS_Get(sessionId)
  \/ \E sessionId \in SSIds : SS_Delete(sessionId)
  \/ SS_CleanupTimer
  \/ SS_Tick

SSSpec == SSInit /\ [][SSNext]_vars

\* the interactions stored for a session, <<>> when it has none
SS_list(interactions, sessionId) ==
  IF SS_has(interactions, sessionId) THEN SS_get(interactions, sessionId).list ELSE <<>>

C23_IdleSessionExpired ==
  (/\ ss.lastOp = "request"
   /\ ss.last.op \in {"get", "heartbeat", "add_interaction", "update_state"}
   /\ ss.last.idle > SESSION_CONFIG.sessionTimeout)
    => /\ ss.last.status = 404
       /\ ~SS_has(ss.sessions, ss.last.sessionId)

\* a heartbeat 31 minutes after the last activity: answered 200, and the
\* session is active again
C23_Witness ==
  /\ ss.lastOp = "request" /\ ss.last.op = "heartbeat" /\ ss.last.status = 200
  /\ ss.last.idle = SESSION_CONFIG.sessionTimeout + SSMinute
  /\ SS_get(ss.sessions, ss.last.sessionId).lastActivity = ss.now

-----------------------------------------------------------------------------
(* /api/session with request bodies that name the generated fields: the    *)
(* store starts empty, and clients send a sessionId and a state inside     *)
(* sessionData (POST) and inside the data of update_state (PUT).           *)

\* sessionData of a POST body
SSSessionData ==
  {SSNoSessionData,
   [given |-> FALSE, value |-> 0, sessionId |-> 7, state |-> "vip"]}

\* the PUT bodies sent
SSFieldUpdates ==
  {[action |-> "update_state", data |-> SSData("", "completed", 0)],
   [action |-> "update_state", data |-> SSData("", "vip", 0)],
   [action |-> "update_state", data |-> SSData("", "", 9)],
   [action |-> "heartbeat", data |-> SSData("", "", 0)]}

\* the sessionIds the run creates
SSCreatedIds == {SESSION_CONFIG.maxSessions + 1, SESSION_CONFIG.maxSessions + 2}

SSFieldInit ==
  /\ SSInit
  /\ ss.sessions = <<>>

SSFieldNext ==
  \/ \E sessionData \in SSSessionData, initialInteraction \in BOOLEAN :
       SS_Post(sessionData, initialInteraction)
  \/ \E sessionId \in SSCreatedIds, update \in SSFieldUpdates : SS_Put(sessionId, update)
  \/ \E sessionId \in SSCreatedIds : SS_Get(sessionId)
  \/ \E sessionId \in SSCreatedIds : SS_Delete(sessionId)
  \/ SS_CleanupTimer
  \/ SS_Tick

SSFieldSpec == SSFieldInit /\ [][SSFieldNext]_vars

\* C37: every stored session record's sessionId is the key it is stored
\* under and its state is a valid session state, whatever sessionData a
\* create carries and whatever data an update_state carries.
C37_RecordMatchesKey ==
  \A i \in 1..Len(ss.sessions) :
    /\ ss.sessions[i].ownSessionId = ss.sessions[i].sessionId
    /\ ss.sessions[i].state \in VALID_SESSION_STATES

\* a session created with sessionData {sessionId, state}: stored under the
\* generated key with the client's sessionId and state
C37_Witness ==
  /\ ss.last.op = "create" /\ ss.last.status = 201
  /\ SS_has(ss.sessions, ss.last.sessionId)
  /\ SS_get(ss.sessions, ss.last.sessionId).ownSessionId = 7
  /\ SS_get(ss.sessions, ss.last.sessionId).state = "vip"

-----------------------------------------------------------------------------
(* SessionManager across page loads: the item in localStorage outlives the *)
(* object, and the next page's constructor reads it.                       *)

\* an item that is not JSON
Garbage == [PrevBlob(1, 1) EXCEPT !.parsable = FALSE]

LoadStorage ==
  {NoItem, Garbage, PrevBlob(StoredInteractions, 0), PrevBlob(StoredInteractions, 1)}

\* the time between the last save of a page and the load of the next one
ReloadGaps == {1, MaxAgeMs - 1, MaxAgeMs}

SMLoadInit ==
  /\ ARInit
  /\ \E st \in LoadStorage : sm = SM_constructor(StartNow, st)
  /\ cu = "unused"
  /\ qr = "unused"
  /\ api = "unused"
  /\ mo = "unused"
  /\ eh = "unused"
  /\ ss = "unused"
  /\ pm = "unused"
  /\ am = "unused"

\* the page is left and loaded again: new SessionManager() up to its call
\* of initialize()
SM_Reload(gap) ==
  /\ sm.now = StartNow
  /\ sm.sessionId # "null"
  /\ SM_Step(SM_constructor(sm.now + gap, sm.storage), "new")

SMLoadNext ==
  \/ SM_Initialize
  \/ \E type \in TrackTypes :
       sm.sessionId # "null" /\ sm.tracked < MaxTracked /\ SM_Track(type)
  \/ \E gap \in ReloadGaps : SM_Reload(gap)

SMLoadSpec == SMLoadInit /\ [][SMLoadNext]_vars

\* C24: the constructor adopts the interactions of the stored snapshot only
\* if it was saved less than 24 hours earlier, and never more than 50 of
\* them; with an older, missing or unparsable item it adopts nothing (the
\* list then holds the new session's page_visit only) and nothing is thrown.
C24_AdoptsRecentSnapshotOnly ==
  [][sm'.lastOp = "initialize" =>
       LET st == sm.storage
           recent == /\ st.present /\ st.parsable
                     /\ sm.now - st.lastSaved < 24 * 60 * 60 * 1000
           adopted == SubSeq(sm'.interactions, 1, Len(sm'.interactions) - 1)
       IN /\ ~sm'.thrown
          /\ sm'.interactions[Len(sm'.interactions)].type = "page_visit"
          /\ sm'.interactions[Len(sm'.interactions)].sessionId = sm'.sessionId
          /\ Len(adopted) <= 50
          /\ adopted = IF recent THEN st.interactions ELSE <<>>]_vars

\* a page loaded exactly 24 hours after the last save of the page before it:
\* only its own page_visit is in the list
C24_Witness ==
  /\ sm.lastOp = "initialize"
  /\ sm.now = StartNow + MaxAgeMs
  /\ sm.storage.present
  /\ Len(sm.interactions) = 1

-----------------------------------------------------------------------------
(* /api/ar/message (pages/api/ar/message.js) and the ARScene that fetches  *)
(* it (src/unnamed/part_005). am holds one request with its response, and  *)
(* the scene's vampireMessage / showMessage / markerVisible state when the *)
(* request is the scene's own fetch('/api/ar/message').                    *)

\* the default of AR_MESSAGES.vampire.text: "O vampiro se esconde no reflexo,
\* mas Rupert percebeu a verdade... Siga-o para a proxima pista antes que ele
\* desapareca tambem." (with its diacritics and ellipsis character)
VampireText == "O vampiro se esconde no reflexo, mas Rupert percebeu a verdade"

\* process.env.NEXT_PUBLIC_AR_MESSAGE || default ("" = not set)
AR_MESSAGES(env) ==
  [vampire |-> [id |-> "vampire_secret",
                text |-> IF env # "" THEN env ELSE VampireText,
                language |-> "pt", style |-> [fontSize |-> "large"]],
   fallback |-> [id |-> "fallback_message", text |-> "A mysterious message appears...",
                 language |-> "en", style |-> [fontSize |-> "medium"]]]

\* messageScale in tenths
DEVICE_PROFILES ==
  [desktop |-> [messageScale |-> 10, quality |-> "high", maxFPS |-> 60],
   mobile_high |-> [messageScale |-> 8, quality |-> "medium", maxFPS |-> 30],
   mobile_low |-> [messageScale |-> 7, quality |-> "low", maxFPS |-> 24],
   tablet |-> [messageScale |-> 9, quality |-> "medium", maxFPS |-> 30]]

adjustFontSize(fontSize, scale) ==
  CASE fontSize = "small" -> IF scale < 8 THEN "x-small" ELSE "small"
    [] fontSize = "medium" -> IF scale < 8 THEN "small" ELSE "medium"
    [] fontSize = "large" -> IF scale < 8 THEN "medium" ELSE "large"
    [] fontSize = "x-large" -> IF scale < 8 THEN "large" ELSE "x-large"
    [] OTHER -> fontSize

\* handleGetConfiguration: the JSON payload of the 200 response
handleGetConfiguration(query, env) ==
  LET message == IF query.messageType \in DOMAIN AR_MESSAGES(env)
                 THEN AR_MESSAGES(env)[query.messageType] ELSE AR_MESSAGES(env).vampire
      deviceProfile == IF query.deviceType \in DOMAIN DEVICE_PROFILES
                       THEN DEVICE_PROFILES[query.deviceType]
                       ELSE DEVICE_PROFILES.mobile_high
      adjusted == [message EXCEPT !.style.fontSize =
                     adjustFontSize(@, deviceProfile.messageScale)]
      sceneConfig == [present |-> TRUE, maxFPS |-> deviceProfile.maxFPS,
                adaptiveQuality |-> deviceProfile.quality # "high"]
  IN CASE query.format = "message" -> [message |-> adjusted, deviceProfile |-> deviceProfile]
       [] query.format = "scene" -> [scene |-> sceneConfig, deviceProfile |-> deviceProfile]
       [] OTHER -> [message |-> adjusted,
                    scene |-> IF query.includeScene = "true" THEN sceneConfig
                              ELSE [present |-> FALSE, maxFPS |-> 0,
                                    adaptiveQuality |-> FALSE],
                    deviceProfile |-> deviceProfile,
                    metadata |-> [deviceType |-> query.deviceType,
                                  messageType |-> query.messageType]]

\* handler of /api/ar/message for the methods explored
AM_handler(a) ==
  IF a.req.method = "GET"
  THEN [a EXCEPT !.pc = "done", !.status = 200,
                 !.payload = handleGetConfiguration(a.req.query, a.env)]
  ELSE [a EXCEPT !.pc = "done", !.status = 405,
                 !.payload = [error |-> "Method not allowed"]]

\* data.content?.text
ContentText(data) ==
  IF "content" \in DOMAIN data /\ "text" \in DOMAIN data.content
  THEN data.content.text ELSE "undefined"

\* what ARScene renders: no overlay before the payload is stored; otherwise
\* <MessageOverlay message={vampireMessage.content?.text}
\*                 isVisible={showMessage && arState.markerVisible}>, whose
\* <p> shows nothing for an undefined message
AM_overlay(a) ==
  [mounted |-> a.vampireMessage.present,
   isVisible |-> a.showMessage /\ a.markerVisible,
   text |-> IF a.vampireMessage.present
               /\ ContentText(a.vampireMessage.data) # "undefined"
            THEN ContentText(a.vampireMessage.data) ELSE ""]

DefaultQuery ==
  [messageType |-> "vampire", deviceType |-> "mobile_high", format |-> "full",
   includeScene |-> "true"]

AMQueries ==
  [messageType : {"vampire", "fallback", "other"},
   deviceType : {"desktop", "mobile_high", "mobile_low"},
   format : {"full", "message", "scene"},
   includeScene : {"true", "false"}]

AMInit ==
  /\ ARInit
  /\ sm = "unused"
  /\ cu = "unused"
  /\ qr = "unused"
  /\ api = "unused"
  /\ mo = "unused"
  /\ eh = "unused"
  /\ ss = "unused"
  /\ pm = "unused"
  /\ \E query \in AMQueries, method \in {"GET", "PUT"}, env \in {"", "custom text"} :
       am = [req |-> [method |-> method, query |-> query], env |-> env,
             pc |-> "received", status |-> 0, payload |-> [error |-> ""],
             vampireMessage |-> [present |-> FALSE, data |-> [error |-> ""]],
             fetched |-> FALSE, showMessage |-> FALSE, markerVisible |-> FALSE]

AM_Step(a) ==
  /\ am' = a
  /\ UNCHANGED <<arVars, sm, cu, qr, api, mo, eh, ss, pm>>

AM_Handle ==
  /\ am.pc = "received"
  /\ AM_Step(AM_handler(am))

\* fetchVampireMessage of ARScene has its response: setVampireMessage(data)
\* when response.ok
AM_FetchResolved ==
  /\ am.pc = "done" /\ ~am.fetched
  /\ am.req = [method |-> "GET", query |-> DefaultQuery]
  /\ AM_Step([am EXCEPT !.fetched = TRUE,
                        !.vampireMessage =
                           IF am.status = 200
                           THEN [present |-> TRUE, data |-> am.payload] ELSE @])

\* the anchor's onTargetFound / onTargetLost
AM_Marker(found) ==
  /\ am.fetched
  /\ am.markerVisible # found
  /\ AM_Step([am EXCEPT !.markerVisible = found, !.showMessage = found])

AMNext ==
  \/ AM_Handle
  \/ AM_FetchResolved
  \/ \E found \in BOOLEAN : AM_Marker(found)

AMSpec == AMInit /\ [][AMNext]_vars

\* C25: a GET of /api/ar/message answers with the Portuguese vampire message
\* at content.text of its JSON payload, and that text is what the overlay
\* shows while the marker is detected.
C25_MessageAtContentText ==
  /\ (am.pc = "done" /\ am.req = [method |-> "GET", query |-> DefaultQuery]
        /\ am.env = "")
       => ContentText(am.payload) = VampireText
  /\ (am.fetched /\ am.env = "" /\ am.markerVisible)
       => /\ AM_overlay(am).mounted /\ AM_overlay(am).isVisible
          /\ AM_overlay(am).text = VampireText

\* the scene's own fetch answered with the text at message.text and no
\* content field; marker detected, overlay shown without text
C25_Witness ==
  /\ am.fetched /\ am.markerVisible /\ am.env = ""
  /\ am.status = 200 /\ am.payload.message.text = VampireText
  /\ "content" \notin DOMAIN am.payload
  /\ AM_overlay(am).mounted /\ AM_overlay(am).isVisible /\ AM_overlay(am).text = ""

-----------------------------------------------------------------------------
(* ARPerformanceOptimizer (lib/performance): the quality profile and the    *)
(* set of applied optimizations.  renderScale is kept in tenths.            *)
(* currentProfile is the object held by PERFORMANCE_PROFILES itself (no     *)
(* copy is made), so pm.profiles is the module-level table and the current  *)
(* profile is pm.profiles[pm.class].                                        *)

PMMaxEvents == 6

PERFORMANCE_PROFILES ==
  [high_end  |-> [maxFPS |-> 60, renderScale |-> 10, textureResolution |-> "high",
                  enableEffects |-> TRUE, enableAntialiasing |-> TRUE],
   mid_range |-> [maxFPS |-> 30, renderScale |-> 8, textureResolution |-> "medium",
                  enableEffects |-> TRUE, enableAntialiasing |-> FALSE],
   low_end   |-> [maxFPS |-> 24, renderScale |-> 6, textureResolution |-> "low",
                  enableEffects |-> FALSE, enableAntialiasing |-> FALSE]]

OptimizationTypes ==
  {"reduce_render_scale", "disable_effects", "reduce_fps_target",
   "reduce_texture_quality", "reduce_quality", "memory_cleanup"}

PerformanceIssues == {"low_fps", "frame_drops", "high_memory"}

PM_max(a, b) == IF a > b THEN a ELSE b

TextureLevel(t) == CASE t = "high" -> 2 [] t = "medium" -> 1 [] OTHER -> 0

currentProfile(o) == o.profiles[o.class]

getOptimalProfile(capabilities) ==
  IF capabilities \in DOMAIN PERFORMANCE_PROFILES THEN capabilities ELSE "low_end"

(* applyOptimization without the "already applied" early return *)
RECURSIVE applyOptimization_noGuard(_, _)
applyOptimization_noGuard(o, type) ==
  LET o1 == [o EXCEPT !.optimizations = @ \cup {type}]
      cur == currentProfile(o1)
      o2 ==
        CASE type = "reduce_render_scale" ->
               [o1 EXCEPT !.profiles[o1.class].renderScale = PM_max(4, @ - 1)]
          [] type = "disable_effects" ->
               [o1 EXCEPT !.profiles[o1.class].enableEffects = FALSE,
                          !.profiles[o1.class].enableAntialiasing = FALSE]
          [] type = "reduce_fps_target" ->
               [o1 EXCEPT !.profiles[o1.class].maxFPS = PM_max(15, @ - 5)]
          [] type = "reduce_texture_quality" ->
               LET t == IF cur.textureResolution = "high" THEN "medium"
                        ELSE IF cur.textureResolution = "medium" THEN "low"
                        ELSE cur.textureResolution
               IN [o1 EXCEPT !.profiles[o1.class].textureResolution = t,
                             !.texDrop = PM_max(@, TextureLevel(cur.textureResolution)
                                                     - TextureLevel(t))]
          [] type = "reduce_quality" ->
               applyOptimization_noGuard(
                 applyOptimization_noGuard(o1, "reduce_render_scale"), "disable_effects")
          [] OTHER -> o1
  IN [o2 EXCEPT !.applied[type] = @ + 1]

RECURSIVE applyOptimization(_, _)
applyOptimization(o, type) ==
  IF type \in o.optimizations
    THEN [o EXCEPT !.skipped = TRUE]
    ELSE
      LET o1 == [o EXCEPT !.optimizations = @ \cup {type}]
          cur == currentProfile(o1)
          o2 ==
            CASE type = "reduce_render_scale" ->
                   [o1 EXCEPT !.profiles[o1.class].renderScale = PM_max(4, @ - 1)]
              [] type = "disable_effects" ->
                   [o1 EXCEPT !.profiles[o1.class].enableEffects = FALSE,
                              !.profiles[o1.class].enableAntialiasing = FALSE]
              [] type = "reduce_fps_target" ->
                   [o1 EXCEPT !.profiles[o1.class].maxFPS = PM_max(15, @ - 5)]
              [] type = "reduce_texture_quality" ->
                   LET t == IF cur.textureResolution = "high" THEN "medium"
                            ELSE IF cur.textureResolution = "medium" THEN "low"
                            ELSE cur.textureResolution
                   IN [o1 EXCEPT !.profiles[o1.class].textureResolution = t,
                                 !.texDrop = PM_max(@, TextureLevel(cur.textureResolution)
                                                         - TextureLevel(t))]
              [] type = "reduce_quality" ->
                   applyOptimization(applyOptimization(o1, "reduce_render_scale"),
                                     "disable_effects")
              [] OTHER -> o1
      (* emitOptimizationEvent(type) *)
      IN [o2 EXCEPT !.applied[type] = @ + 1]

handlePerformanceIssues(o, issues) ==
  LET a == IF "low_fps" \in issues
             THEN applyOptimization(applyOptimization(o, "reduce_render_scale"),
                                    "disable_effects")
             ELSE o
      b == IF "frame_drops" \in issues THEN applyOptimization(a, "reduce_fps_target") ELSE a
  IN IF "high_memory" \in issues
       THEN applyOptimization(applyOptimization(b, "memory_cleanup"),
                              "reduce_texture_quality")
       ELSE b

onFrameDrop(o, consecutiveDrops) ==
  IF consecutiveDrops >= 3 THEN applyOptimization(o, "reduce_quality") ELSE o

onMemoryWarning(o) == applyOptimization(o, "memory_cleanup")

resetOptimizations(o) ==
  [o EXCEPT !.optimizations = {},
            !.class = getOptimalProfile(o.capabilities),
            !.applied = [t \in OptimizationTypes |-> 0]]

PMInit ==
  /\ ARInit
  /\ sm = "unused"
  /\ cu = "unused"
  /\ qr = "unused"
  /\ api = "unused"
  /\ mo = "unused"
  /\ eh = "unused"
  /\ ss = "unused"
  /\ am = "unused"
  /\ \E capabilities \in {"high_end", "mid_range", "low_end", "none"} :
       pm = [capabilities |-> capabilities,
             class |-> getOptimalProfile(capabilities),
             profiles |-> PERFORMANCE_PROFILES,
             optimizations |-> {},
             applied |-> [t \in OptimizationTypes |-> 0],
             texDrop |-> 0, skipped |-> FALSE,
             events |-> 0, lastOp |-> "constructor"]

PM_Step(o, op) ==
  /\ pm' = [o EXCEPT !.events = pm.events + 1, !.lastOp = op]
  /\ UNCHANGED <<arVars, sm, cu, qr, api, mo, eh, ss, am>>

PM_Start == [pm EXCEPT !.skipped = FALSE]

PM_PerformanceIssue ==
  /\ pm.events < PMMaxEvents
  /\ \E issues \in (SUBSET PerformanceIssues) \ {{}} :
       PM_Step(handlePerformanceIssues(PM_Start, issues), "onPerformanceIssue")

PM_FrameDrop ==
  /\ pm.events < PMMaxEvents
  /\ \E consecutiveDrops \in {1, 3} :
       PM_Step(onFrameDrop(PM_Start, consecutiveDrops), "onFrameDrop")

PM_MemoryWarning ==
  /\ pm.events < PMMaxEvents
  /\ PM_Step(onMemoryWarning(PM_Start), "onMemoryWarning")

PM_Reset ==
  /\ pm.events < PMMaxEvents
  /\ PM_Step(resetOptimizations(PM_Start), "resetOptimizations")

PMNext ==
  \/ PM_PerformanceIssue
  \/ PM_FrameDrop
  \/ PM_MemoryWarning
  \/ PM_Reset

PMSpec == PMInit /\ [][PMNext]_vars

(* C30: under any sequence of reported performance issues, frame drops,     *)
(* memory warnings and resets, every optimization type has been applied at  *)
(* most once since the last reset, renderScale is never below 0.4, maxFPS   *)
(* is never below 15, and no single application lowered the texture         *)
(* resolution by more than one level.                                       *)
C30_OptimizationsBounded ==
  /\ \A t \in OptimizationTypes : pm.applied[t] <= 1
  /\ \A c \in DOMAIN pm.profiles :
       /\ pm.profiles[c].renderScale >= 4
       /\ pm.profiles[c].maxFPS >= 15
  /\ pm.texDrop <= 1

C30_Witness ==
  /\ pm.lastOp = "onPerformanceIssue"
  /\ pm.skipped
  /\ pm.applied["reduce_fps_target"] = 1
  /\ currentProfile(pm).maxFPS = 15
  /\ pm.texDrop = 1

\* { ...this.currentProfile }
getProfile(o) == currentProfile(o)

\* C35: applying optimizations never modifies the PERFORMANCE_PROFILES table,
\* and after resetOptimizations getProfile is the pristine profile of the
\* optimizer's device class.
C35_ResetRestoresProfile ==
  /\ pm.profiles = PERFORMANCE_PROFILES
  /\ pm.lastOp = "resetOptimizations"
       => getProfile(pm) = PERFORMANCE_PROFILES[pm.class]

\* a reset after reduce_render_scale: no optimization is recorded as applied
\* and the render scale is still the reduced one
C35_Witness ==
  /\ pm.lastOp = "resetOptimizations"
  /\ pm.optimizations = {}
  /\ getProfile(pm).renderScale < PERFORMANCE_PROFILES[pm.class].renderScale

-----------------------------------------------------------------------------
(* ARPerformanceMonitor (lib/performance): isRunning and the callbacks it   *)
(* has handed to requestAnimationFrame.  In this specification pm holds the *)
(* monitor: scheduled is the number of monitorLoop callbacks waiting for    *)
(* the next animation frame.                                                *)

MonMaxCalls == 4      \* start() / stop() calls explored
MonMaxFrames == 3     \* animation frames explored

\* monitorLoop: one more frame counted and one callback requested, when running
monitorLoop(m) ==
  IF ~m.isRunning THEN m
  ELSE [m EXCEPT !.frameCount = @ + 1, !.scheduled = @ + 1]

Mon_start(m) == monitorLoop([m EXCEPT !.isRunning = TRUE])

Mon_stop(m) == [m EXCEPT !.isRunning = FALSE]

\* the browser runs the callbacks requested for this frame; what they
\* request is run in the next frame
RECURSIVE Mon_runCallbacks(_, _)
Mon_runCallbacks(m, k) ==
  IF k = 0 THEN m ELSE Mon_runCallbacks(monitorLoop(m), k - 1)

MonInit ==
  /\ ARInit
  /\ sm = "unused"
  /\ cu = "unused"
  /\ qr = "unused"
  /\ api = "unused"
  /\ mo = "unused"
  /\ eh = "unused"
  /\ ss = "unused"
  /\ am = "unused"
  /\ pm = [isRunning |-> FALSE, scheduled |-> 0, frameCount |-> 0,
           calls |-> 0, frames |-> 0, lastOp |-> "constructor"]

Mon_Step(m, op) ==
  /\ pm' = [m EXCEPT !.lastOp = op]
  /\ UNCHANGED <<arVars, sm, cu, qr, api, mo, eh, ss, am>>

Mon_Start ==
  /\ pm.calls < MonMaxCalls
  /\ Mon_Step(Mon_start([pm EXCEPT !.calls = @ + 1]), "start")

Mon_Stop ==
  /\ pm.calls < MonMaxCalls
  /\ Mon_Step(Mon_stop([pm EXCEPT !.calls = @ + 1]), "stop")

Mon_Frame ==
  /\ pm.frames < MonMaxFrames
  /\ pm.scheduled > 0
  /\ Mon_Step(Mon_runCallbacks([pm EXCEPT !.scheduled = 0, !.frames = @ + 1],
                               pm.scheduled), "frame")

MonNext ==
  \/ Mon_Start
  \/ Mon_Stop
  \/ Mon_Frame

MonSpec == MonInit /\ [][MonNext]_vars

\* C36: at most one monitorLoop callback is scheduled at any time, whatever
\* the sequence of start() and stop() calls and animation frames.
C36_OneMonitorLoop == pm.scheduled <= 1

\* stop() and start() before the next frame: the frame has run two
\* callbacks and both have requested the next frame
C36_Witness ==
  /\ pm.lastOp = "frame"
  /\ pm.isRunning
  /\ pm.scheduled = 2

=============================================================================
